---- MODULE Spec2Model ----
(***************************************************************************)
(* Routing & resilience subsystem of llm-router:                           *)
(*   - GatewayOrchestrator (src/core/src/agents/gateway_orchestrator.py)   *)
(*   - CircuitBreaker / HealthChecker / FailoverManager                    *)
(*     (src/core/src/agents/failover.py)                                   *)
(*   - RoutingAgent.route / execute (src/core/src/agents/routing_agent.py) *)
(*   - chat_completions (src/core/src/api/v1/chat.py)                      *)
(* Time is int(time.time()) seconds.  Optional[T] is modelled as a         *)
(* sequence: None is <<>> and a present value x is <<x>>.                  *)
(***************************************************************************)
EXTENDS Integers, Sequences, FiniteSets, TLC

VARIABLES
    now,          \* wall clock, seconds
    sw,           \* GatewayOrchestrator in-memory fields
    redis,        \* router:switch:* keys of the shared store
    db_history,   \* RoutingSwitchHistory rows
    last,         \* the most recent orchestrator call and what it returned
    lastToggle,   \* the most recent accepted toggle call (call log)
    cb_states,           \* CircuitBreaker._states
    state_change_times,  \* CircuitBreaker._state_change_times
    cb_redis,            \* circuit_breaker_state:<id> keys of the shared store
    health_status,       \* HealthChecker._health_status
    failure_history,     \* FailoverManager._failure_history
    cb_last,             \* the most recent breaker call and what it returned
    fail_run,            \* call log: consecutive record_failure calls per backend
    succ_run,            \* call log: consecutive record_success calls per backend
    probe_run,           \* call log: requests let through in the current half_open spell
    rules_db,            \* routing_rules rows, in the order a SELECT returns them
    providers_db,        \* providers rows
    models_db,           \* provider_models rows
    loaded_rules,        \* RoutingRule objects held by the last rule evaluation
    round_robin_index,   \* RoutingAgent._round_robin_index
    route_last,          \* the most recent route call and what it returned
    picks,               \* call log: decisions of _weighted_round_robin_routing, in call order
    providers_cache,     \* RoutingAgent._providers_cache (ids with an instance)
    decisions_db,        \* routing_decisions rows (the audit records)
    exec_last,           \* the most recent execute call and what it returned
    http_last,           \* the most recent chat_completions call and its HTTP status
    metrics_cache,       \* MetricsCollector._metrics_cache
    metrics_redis,       \* provider_metrics:<id> keys of the shared store
    connection_counts,   \* LoadBalancer._connection_counts (0: no entry)
    lb_round_robin_index, \* LoadBalancer._round_robin_index
    lb_last,             \* the most recent load balancer call and what it returned
    in_flight,           \* call log: least-connections selections not yet completed
    monitor,             \* HealthChecker background task: _running, position in the loop
    tasks,               \* coroutines in progress: the locals each holds at its await
    peer                 \* in-memory fields of a second gateway process on the same store

switchVars == <<sw, redis, db_history, last, lastToggle>>
circuitVars == <<cb_states, state_change_times, cb_redis, health_status,
                 failure_history, cb_last, fail_run, succ_run, probe_run>>
routeVars == <<rules_db, providers_db, models_db, loaded_rules,
               round_robin_index, route_last, picks>>
lbVars == <<metrics_cache, metrics_redis, connection_counts, lb_round_robin_index,
           lb_last, in_flight>>
procVars == <<monitor, tasks, peer>>
execVars == <<providers_cache, decisions_db, exec_last, http_last, lbVars, procVars>>
vars == <<now, switchVars, circuitVars, routeVars, execVars>>

\* ---------------------------------------------------------------- bounds
MaxSwitches == 2
MaxConsecutiveFailures == 5
MaxConsecutiveSuccesses == 2
MaxFailureHistory == 5
MaxRoundRobin == 2
MaxSelections == 10
MaxRecords == 2
RouteMaxToggles == 1
MaxProbes == 4

\* ------------------------------------------------------ program constants
CooldownSeconds == 300
DefaultDelay == 10
PendingTtlSlack == 60
HistoryCap == 100
failure_threshold == 5
success_threshold == 2
timeout_seconds == 60
half_open_max_calls == 3
CircuitTtl == 3600
MaxRetriesLimit == 10

None == <<>>
Some(x) == <<x>>

\* delay arguments a caller passes: omitted, 0, 5 or 10 seconds
Delays == {None, Some(0), Some(5), Some(10)}

\* ------------------------------------------------- GatewayOrchestrator
\* __init__
InitSwitch ==
    [enabled |-> TRUE, pending_switch |-> FALSE, pending_value |-> FALSE,
     scheduled_at |-> None, cooldown_until |-> None]

InitRedis ==
    [pending |-> None, cooldown |-> None, enabled |-> None, history |-> <<>>]

\* str(bool).lower()
BoolStr(b) == IF b THEN "true" ELSE "false"

\* `self._cooldown_until and now < self._cooldown_until`
CooldownActive_Inverted(cu, t) == cu # None /\ cu[1] # 0 /\ t > cu[1]
CooldownActive(cu, t) == cu # None /\ cu[1] # 0 /\ t < cu[1]

\* `0 if force else (delay or 10)`
EffectiveDelay_ForceIgnored(force, delay) ==
    IF delay = None \/ delay[1] = 0 THEN DefaultDelay ELSE delay[1]
EffectiveDelay(force, delay) ==
    IF force THEN 0
    ELSE IF delay = None \/ delay[1] = 0 THEN DefaultDelay ELSE delay[1]

\* `now >= self._scheduled_at`
PendingDue_Strict(s, t) ==
    s.pending_switch /\ s.scheduled_at # None /\ t > s.scheduled_at[1]
PendingDue(s, t) ==
    s.pending_switch /\ s.scheduled_at # None /\ t >= s.scheduled_at[1]

HistoryEntry(old_enabled, new_enabled, reason, triggered_by, t) ==
    [old_enabled |-> BoolStr(old_enabled), new_enabled |-> BoolStr(new_enabled),
     reason |-> reason, triggered_by |-> triggered_by, timestamp |-> t]

\* lpush + ltrim(0, 99)
PushHistory(h, e) == SubSeq(<<e>> \o h, 1, IF Len(h) + 1 > HistoryCap THEN HistoryCap ELSE Len(h) + 1)

\* redis.set(COOLDOWN, ex=300); redis.delete(PENDING); redis.set(ENABLED);
\* _record_history
RedisAfterSwitch(r, old_enabled, new_enabled, reason, triggered_by, t) ==
    [pending  |-> None,
     cooldown |-> Some([value |-> t + CooldownSeconds, expire_at |-> t + CooldownSeconds]),
     enabled  |-> Some(BoolStr(new_enabled)),
     history  |-> PushHistory(r.history, HistoryEntry(old_enabled, new_enabled, reason, triggered_by, t))]

\* _process_pending_switch: the in-memory part
ProcessPendingMem_Skip(s, t) == s
ProcessPendingMem_NoCooldown(s, t) ==
    IF PendingDue(s, t)
    THEN [enabled |-> s.pending_value, pending_switch |-> FALSE,
          pending_value |-> FALSE, scheduled_at |-> None,
          cooldown_until |-> s.cooldown_until]
    ELSE s
ProcessPendingMem_KeepPending(s, t) ==
    IF PendingDue(s, t)
    THEN [s EXCEPT !.enabled = s.pending_value,
                   !.cooldown_until = Some(t + CooldownSeconds)]
    ELSE s
ProcessPendingMem(s, t) ==
    IF PendingDue(s, t)
    THEN [enabled |-> s.pending_value, pending_switch |-> FALSE,
          pending_value |-> FALSE, scheduled_at |-> None,
          cooldown_until |-> Some(t + CooldownSeconds)]
    ELSE s

\* _process_pending_switch: the shared-store part
ProcessPendingRedis(s, r, t) ==
    IF PendingDue(s, t)
    THEN RedisAfterSwitch(r, s.enabled, s.pending_value, "Scheduled switch", "system", t)
    ELSE r

ProcessPendingDb(s, d, t) ==
    IF PendingDue(s, t)
    THEN Append(d, HistoryEntry(s.enabled, s.pending_value, "Scheduled switch", "system", t))
    ELSE d

\* `can_toggle = self._cooldown_until is None or now > self._cooldown_until`
CanToggle(cu, t) == cu = None \/ t > cu[1]

\* SwitchInfo built by get_status
SwitchInfo_Remaining(s, t) ==
    [enabled |-> s.enabled, pending |-> s.pending_switch,
     pending_value |-> IF s.pending_switch THEN Some(s.pending_value) ELSE None,
     scheduled_at |-> s.scheduled_at,
     cooldown_until |-> IF s.cooldown_until = None THEN None
                        ELSE Some(s.cooldown_until[1] - t),
     can_toggle |-> CanToggle(s.cooldown_until, t)]
SwitchInfo(s, t) ==
    [enabled |-> s.enabled, pending |-> s.pending_switch,
     pending_value |-> IF s.pending_switch THEN Some(s.pending_value) ELSE None,
     scheduled_at |-> s.scheduled_at, cooldown_until |-> s.cooldown_until,
     can_toggle |-> CanToggle(s.cooldown_until, t)]

NoInfo == SwitchInfo(InitSwitch, 0)

\* rows written since the clock reading 0 (rows of earlier runs carry earlier
\* timestamps)
Executed == Cardinality({i \in 1..Len(db_history) : db_history[i].timestamp >= 0})

\* get_status()
get_status ==
    /\ PendingDue(sw, now) => Executed < MaxSwitches
    /\ sw' = ProcessPendingMem(sw, now)
    /\ redis' = ProcessPendingRedis(sw, redis, now)
    /\ db_history' = ProcessPendingDb(sw, db_history, now)
    /\ last' = [op |-> "get_status", error |-> "",
                info |-> SwitchInfo(sw', now), ret |-> sw'.enabled]
    /\ UNCHANGED <<now, lastToggle, circuitVars, routeVars, execVars>>

\* is_enabled()
is_enabled ==
    /\ PendingDue(sw, now) => Executed < MaxSwitches
    /\ sw' = ProcessPendingMem(sw, now)
    /\ redis' = ProcessPendingRedis(sw, redis, now)
    /\ db_history' = ProcessPendingDb(sw, db_history, now)
    /\ last' = [op |-> "is_enabled", error |-> "",
                info |-> NoInfo, ret |-> sw'.enabled]
    /\ UNCHANGED <<now, lastToggle, circuitVars, routeVars, execVars>>

\* toggle(): the branch that schedules a delayed switch
ScheduledMem_NoTime(s, value, t, d) ==
    [s EXCEPT !.pending_switch = TRUE, !.pending_value = value]
ScheduledMem(s, value, t, d) ==
    [s EXCEPT !.pending_switch = TRUE, !.pending_value = value,
              !.scheduled_at = Some(t + d)]

ScheduledRedis(r, value, t, d) ==
    [r EXCEPT !.pending = Some([pending |-> "true", value |-> BoolStr(value),
                                scheduled_at |-> t + d,
                                expire_at |-> t + d + PendingTtlSlack])]

\* toggle(): the branch that switches at once
ImmediateMem(s, value, t) ==
    [s EXCEPT !.enabled = value, !.pending_switch = FALSE,
              !.scheduled_at = None, !.cooldown_until = Some(t + CooldownSeconds)]

\* toggle(value, reason, triggered_by, force, delay)
toggle(value, force, delay) ==
    IF CooldownActive(sw.cooldown_until, now) /\ ~force
    THEN /\ last' = [op |-> "toggle", error |-> "Cooldown active",
                     info |-> NoInfo]
         /\ UNCHANGED <<now, sw, redis, db_history, lastToggle, circuitVars, routeVars, execVars>>
    ELSE LET d == EffectiveDelay(force, delay) IN
         IF d > 0
         THEN LET s1 == ScheduledMem(sw, value, now, d)
                  r1 == ScheduledRedis(redis, value, now, d)
              IN /\ PendingDue(s1, now) => Executed < MaxSwitches
                 /\ sw' = ProcessPendingMem(s1, now)
                 /\ redis' = ProcessPendingRedis(s1, r1, now)
                 /\ db_history' = ProcessPendingDb(s1, db_history, now)
                 /\ last' = [op |-> "toggle", error |-> "",
                             info |-> SwitchInfo(sw', now), ret |-> sw'.enabled]
                 /\ lastToggle' = [kind |-> "scheduled", force |-> force,
                                   value |-> value, at |-> now, delay |-> d,
                                   pre |-> sw]
                 /\ UNCHANGED <<now, circuitVars, routeVars, execVars>>
         ELSE LET s1 == ImmediateMem(sw, value, now)
                  r1 == RedisAfterSwitch(redis, sw.enabled, value, "manual", "admin", now)
                  d1 == Append(db_history, HistoryEntry(sw.enabled, value, "manual", "admin", now))
              IN /\ Executed < MaxSwitches
                 /\ sw' = ProcessPendingMem(s1, now)
                 /\ redis' = ProcessPendingRedis(s1, r1, now)
                 /\ db_history' = ProcessPendingDb(s1, d1, now)
                 /\ last' = [op |-> "toggle", error |-> "",
                             info |-> SwitchInfo(sw', now), ret |-> sw'.enabled]
                 /\ lastToggle' = [kind |-> "immediate", force |-> force,
                                   value |-> value, at |-> now, delay |-> 0,
                                   pre |-> sw]
                 /\ UNCHANGED <<now, circuitVars, routeVars, execVars>>

\* a key of the shared store read at time t: gone once its TTL has run out
\* (a key written without a TTL has no expire_at)
LiveCooldown(r, t) ==
    IF r.cooldown # None /\ t < r.cooldown[1].expire_at THEN r.cooldown ELSE None

LivePending(r, t) ==
    IF r.pending # None /\ t < r.pending[1].expire_at THEN r.pending ELSE None

\* initialize(), lines 70-94: the fields of a new process (__init__) after
\* the pending hash, the cooldown key and the enabled key have been loaded
LoadSnapshot(r, t) ==
    LET pending_data == LivePending(r, t)
        cooldown_str == LiveCooldown(r, t)
    IN [enabled |-> IF r.enabled # None THEN r.enabled[1] = "true"
                    ELSE InitSwitch.enabled,
        pending_switch |-> IF pending_data # None
                           THEN pending_data[1].pending = "true"
                           ELSE InitSwitch.pending_switch,
        pending_value |-> IF pending_data # None
                          THEN pending_data[1].value = "true"
                          ELSE InitSwitch.pending_value,
        scheduled_at |-> IF pending_data # None
                         THEN Some(pending_data[1].scheduled_at)
                         ELSE InitSwitch.scheduled_at,
        cooldown_until |-> IF cooldown_str # None
                           THEN Some(cooldown_str[1].value)
                           ELSE InitSwitch.cooldown_until]

\* process restart: GatewayOrchestrator() of a new process, then
\* initialize() as main.py runs it at startup
restart ==
    LET s1 == LoadSnapshot(redis, now)
    IN /\ PendingDue(s1, now) => Executed < MaxSwitches
       /\ sw' = ProcessPendingMem(s1, now)
       /\ redis' = ProcessPendingRedis(s1, redis, now)
       /\ db_history' = ProcessPendingDb(s1, db_history, now)
       /\ last' = [op |-> "initialize", error |-> "", info |-> NoInfo,
                   ret |-> sw'.enabled, pre |-> sw]
       /\ UNCHANGED <<now, lastToggle, circuitVars, routeVars, execVars>>

\* redis LRANGE key start stop on a list: 0-based, both ends included, a
\* negative index counts from the tail, out-of-range ends are clipped
LRange(list, start, stop) ==
    LET n == Len(list)
        a0 == IF start < 0 THEN n + start ELSE start
        b0 == IF stop < 0 THEN n + stop ELSE stop
        a == IF a0 < 0 THEN 0 ELSE a0
        b == IF b0 > n - 1 THEN n - 1 ELSE b0
    IN IF a > b THEN <<>> ELSE SubSeq(list, a + 1, b + 1)

\* get_history(limit): the entries it returns
GetHistory(r, limit) == LRange(r.history, 0, limit - 1)

CountNew(history, str) ==
    Cardinality({i \in 1..Len(history) : history[i].new_enabled = str})

\* get_metrics(): the counters computed from get_history(100)
Metrics(r) ==
    LET history == GetHistory(r, 100)
    IN [total_switches |-> Len(history),
        enabled_count |-> CountNew(history, "true"),
        disabled_count |-> CountNew(history, "false")]

\* get_history(limit)
get_history(limit) ==
    /\ last' = [op |-> "get_history", error |-> "", info |-> NoInfo,
                limit |-> limit, entries |-> GetHistory(redis, limit)]
    /\ UNCHANGED <<now, sw, redis, db_history, lastToggle, circuitVars, routeVars, execVars>>

\* get_metrics(): get_status(), then get_history(100)
get_metrics ==
    /\ PendingDue(sw, now) => Executed < MaxSwitches
    /\ sw' = ProcessPendingMem(sw, now)
    /\ redis' = ProcessPendingRedis(sw, redis, now)
    /\ db_history' = ProcessPendingDb(sw, db_history, now)
    /\ last' = [op |-> "get_metrics", error |-> "", info |-> SwitchInfo(sw', now),
                metrics |-> Metrics(redis')]
    /\ UNCHANGED <<now, lastToggle, circuitVars, routeVars, execVars>>

\* ------------------------------------- CircuitBreaker / FailoverManager
Providers == {1}

\* every backend id the breaker, the health checker and the failover manager
\* keep an entry for
AllProviders == {1, 2, 3}

\* HealthChecker.get_health_status creates the entry of a backend it has not
\* seen: healthy, both consecutive counters 0.  The entry is never removed, so
\* the lazily created entry is the initial value of a total map.
DefaultHealth ==
    [is_healthy |-> TRUE, consecutive_failures |-> 0, consecutive_successes |-> 0,
     error_message |-> None]

InitCircuitVars ==
    /\ cb_states = [p \in AllProviders |-> "closed"]
    /\ state_change_times = [p \in AllProviders |-> None]
    /\ cb_redis = [p \in AllProviders |-> None]
    /\ health_status = [p \in AllProviders |-> DefaultHealth]
    /\ failure_history = [p \in AllProviders |-> <<>>]
    /\ cb_last = [op |-> "init", provider_id |-> 0, allowed |-> TRUE]
    /\ fail_run = [p \in AllProviders |-> 0]
    /\ succ_run = [p \in AllProviders |-> 0]
    /\ probe_run = [p \in AllProviders |-> 0]

\* CircuitBreaker._set_state: the new _states entry
SetState_States(states, p, state) ==
    IF states[p] # state THEN [states EXCEPT ![p] = state] ELSE states

\* CircuitBreaker._set_state: the new _state_change_times entry
SetStateAlways_Times(states, times, p, state, t) == [times EXCEPT ![p] = Some(t)]
SetState_Times(states, times, p, state, t) ==
    IF states[p] # state THEN [times EXCEPT ![p] = Some(t)] ELSE times

\* CircuitBreaker._set_state: RedisService.set(key, state.value, ttl=3600)
SetState_Redis(states, r, p, state, t) ==
    IF states[p] # state
    THEN [r EXCEPT ![p] = Some([value |-> state, expire_at |-> t + CircuitTtl])]
    ELSE r

\* `now - state_time > self.config.timeout_seconds`, state_time defaulting to 0
TimeoutElapsed_SinceStart(times, p, t) == t > timeout_seconds
TimeoutElapsed(times, p, t) ==
    t - (IF times[p] = None THEN 0 ELSE times[p][1]) > timeout_seconds

\* the state CircuitBreaker.should_allow_request moves the circuit to
\* (its own state when it calls no _set_state)
AllowTarget(p) ==
    IF cb_states[p] = "open"
    THEN IF TimeoutElapsed(state_change_times, p, now) THEN "half_open" ELSE "open"
    ELSE IF cb_states[p] = "half_open"
              /\ health_status[p].consecutive_failures >= half_open_max_calls
         THEN "open"
         ELSE cb_states[p]

\* the boolean CircuitBreaker.should_allow_request returns
AllowResult(p) ==
    IF cb_states[p] = "open"
    THEN TimeoutElapsed(state_change_times, p, now)
    ELSE IF cb_states[p] = "half_open"
         THEN ~(health_status[p].consecutive_failures >= half_open_max_calls)
         ELSE TRUE

ApplySetState(p, state) ==
    /\ cb_states' = SetState_States(cb_states, p, state)
    /\ state_change_times' = SetState_Times(cb_states, state_change_times, p, state, now)
    /\ cb_redis' = SetState_Redis(cb_states, cb_redis, p, state, now)

ResetRunsOnChange(p, fr, sr) ==
    /\ fail_run' = IF cb_states'[p] # cb_states[p] THEN [fr EXCEPT ![p] = 0] ELSE fr
    /\ succ_run' = IF cb_states'[p] # cb_states[p] THEN [sr EXCEPT ![p] = 0] ELSE sr

\* the requests should_allow_request has let through to a backend since it
\* found the circuit half_open, after one more call (the log stops counting at
\* MaxProbes; the call that moves an open circuit to half_open is not counted)
ProbesAfter(p) ==
    IF cb_states[p] = "half_open" /\ AllowResult(p)
    THEN IF probe_run[p] < MaxProbes THEN probe_run[p] + 1 ELSE MaxProbes
    ELSE 0

\* the log of a backend after a call that lets no request through
ProbesKept(p) ==
    IF cb_states'[p] # cb_states[p] THEN 0 ELSE probe_run[p]

\* CircuitBreaker.should_allow_request(provider_id)
should_allow_request(p) ==
    /\ ApplySetState(p, AllowTarget(p))
    /\ probe_run' = [probe_run EXCEPT ![p] = ProbesAfter(p)]
    /\ cb_last' = [op |-> "should_allow_request", provider_id |-> p,
                   allowed |-> AllowResult(p)]
    /\ ResetRunsOnChange(p, fail_run, succ_run)
    /\ UNCHANGED <<now, switchVars, routeVars, execVars, health_status, failure_history>>

\* CircuitBreaker.record_failure: the state it moves the circuit to
FailureTarget(p) ==
    IF health_status[p].consecutive_failures >= failure_threshold
    THEN "open" ELSE cb_states[p]

\* FailoverManager.record_failure(provider_id)
record_failure(p) ==
    /\ Len(failure_history[p]) < MaxFailureHistory
    /\ failure_history' = [failure_history EXCEPT ![p] = Append(@, now)]
    /\ ApplySetState(p, FailureTarget(p))
    /\ probe_run' = [probe_run EXCEPT ![p] = ProbesKept(p)]
    /\ cb_last' = [op |-> "record_failure", provider_id |-> p, allowed |-> TRUE]
    /\ ResetRunsOnChange(p, [fail_run EXCEPT ![p] = @ + 1], [succ_run EXCEPT ![p] = 0])
    /\ UNCHANGED <<now, switchVars, routeVars, execVars, health_status>>

\* CircuitBreaker.record_success: the state it moves the circuit to
SuccessTarget(p) ==
    IF cb_states[p] = "half_open"
         /\ health_status[p].consecutive_successes >= success_threshold
    THEN "closed" ELSE cb_states[p]

\* FailoverManager.record_success(provider_id)
record_success(p) ==
    /\ succ_run[p] < MaxConsecutiveSuccesses
    /\ failure_history' = [failure_history EXCEPT ![p] = <<>>]
    /\ ApplySetState(p, SuccessTarget(p))
    /\ probe_run' = [probe_run EXCEPT ![p] = ProbesKept(p)]
    /\ cb_last' = [op |-> "record_success", provider_id |-> p, allowed |-> TRUE]
    /\ ResetRunsOnChange(p, [fail_run EXCEPT ![p] = 0], [succ_run EXCEPT ![p] = @ + 1])
    /\ UNCHANGED <<now, switchVars, routeVars, execVars, health_status>>

\* HealthChecker._update_health_status(provider_id, is_healthy, error_message)
UpdateHealth(h, is_healthy) ==
    IF is_healthy
    THEN [is_healthy |-> TRUE, consecutive_failures |-> 0,
          consecutive_successes |-> h.consecutive_successes + 1,
          error_message |-> None]
    ELSE [is_healthy |-> FALSE,
          consecutive_failures |-> h.consecutive_failures + 1,
          consecutive_successes |-> 0,
          error_message |-> Some("probe failed")]

update_health_status(p, is_healthy) ==
    /\ is_healthy => health_status[p].consecutive_successes < MaxConsecutiveSuccesses
    /\ ~is_healthy => health_status[p].consecutive_failures < MaxConsecutiveFailures
    /\ health_status' = [health_status EXCEPT ![p] = UpdateHealth(@, is_healthy)]
    /\ cb_last' = [op |-> "health_check", provider_id |-> p, allowed |-> TRUE]
    /\ UNCHANGED <<now, switchVars, routeVars, execVars, cb_states, state_change_times, cb_redis,
                   failure_history, fail_run, succ_run, probe_run>>

\* ------------------------------------------- HealthChecker background task
\* what one pass of the `for provider in providers` body meets: no provider
\* instance, a health_check() result (healthy or not), asyncio.TimeoutError
\* from wait_for, or any other exception from get_provider / health_check
ProbeOutcomes == {"no_instance", "healthy", "unhealthy", "timeout", "raises"}

\* the (is_healthy, error_message) the loop body hands to
\* _update_health_status
ProbeReport_Silent(outcome) ==
    [is_healthy |-> outcome = "healthy", error_message |-> None]
ProbeReport(outcome) ==
    IF outcome = "healthy" THEN [is_healthy |-> TRUE, error_message |-> None]
    ELSE IF outcome = "unhealthy"
    THEN [is_healthy |-> FALSE, error_message |-> Some("health.error_message")]
    ELSE IF outcome = "timeout"
    THEN [is_healthy |-> FALSE, error_message |-> Some("Health check timeout")]
    ELSE [is_healthy |-> FALSE, error_message |-> Some("str(e)")]

\* HealthChecker._update_health_status(provider_id, is_healthy,
\* error_message=...): the new entry
RecordProbe(h, report) ==
    IF report.is_healthy
    THEN [is_healthy |-> TRUE, consecutive_failures |-> 0,
          consecutive_successes |-> h.consecutive_successes + 1,
          error_message |-> None]
    ELSE [is_healthy |-> FALSE,
          consecutive_failures |-> h.consecutive_failures + 1,
          consecutive_successes |-> 0,
          error_message |-> report.error_message]

\* rows of `select(Provider).where(Provider.status == ACTIVE)`, in the order
\* the SELECT returns them
ActiveBackends == <<1, 2>>

MaxRounds == 2

MonitorUnchanged ==
    UNCHANGED <<now, switchVars, routeVars, providers_cache, decisions_db, exec_last,
                http_last, lbVars, tasks, peer, cb_states, state_change_times,
                cb_redis, failure_history, cb_last, fail_run, succ_run, probe_run>>

\* HealthChecker.start()
monitor_start ==
    /\ monitor' = IF monitor.running THEN monitor
                  ELSE [monitor EXCEPT !.running = TRUE, !.pc = "loop"]
    /\ UNCHANGED health_status
    /\ MonitorUnchanged

\* HealthChecker.stop(): _running = False, the task is cancelled at the await
\* it is suspended in and ends with CancelledError (`except
\* asyncio.CancelledError: break`)
monitor_stop ==
    /\ monitor' = [monitor EXCEPT !.running = FALSE,
                                  !.pc = IF @ = "none" THEN "none" ELSE "done",
                                  !.queue = <<>>]
    /\ UNCHANGED health_status
    /\ MonitorUnchanged

\* `while self._running:` and the SELECT of _check_all_providers
monitor_loop ==
    /\ monitor.pc = "loop"
    /\ monitor.rounds < MaxRounds
    /\ monitor' = IF monitor.running
                  THEN [monitor EXCEPT !.pc = "probe", !.queue = ActiveBackends,
                                       !.visited = <<>>, !.rounds = @ + 1]
                  ELSE [monitor EXCEPT !.pc = "done"]
    /\ UNCHANGED health_status
    /\ MonitorUnchanged

\* one pass of the `for provider in providers` body of _check_all_providers;
\* after the last one, `await asyncio.sleep(self._check_interval)`
monitor_probe(outcome) ==
    /\ monitor.pc = "probe"
    /\ LET p == Head(monitor.queue)
           rest == Tail(monitor.queue)
       IN /\ health_status' =
                IF outcome = "no_instance" THEN health_status
                ELSE [health_status EXCEPT ![p] = RecordProbe(@, ProbeReport(outcome))]
          /\ monitor' = [monitor EXCEPT
                !.queue = rest,
                !.visited = Append(@, [provider_id |-> p, outcome |-> outcome]),
                !.pc = IF rest = <<>> THEN "sleep" ELSE "probe"]
    /\ MonitorUnchanged

\* asyncio.sleep(self._check_interval) returns
monitor_wake ==
    /\ monitor.pc = "sleep"
    /\ monitor' = [monitor EXCEPT !.pc = "loop"]
    /\ UNCHANGED health_status
    /\ MonitorUnchanged

NextMonitor ==
    \/ monitor_start
    \/ monitor_stop
    \/ monitor_loop
    \/ \E outcome \in ProbeOutcomes : monitor_probe(outcome)
    \/ monitor_wake

\* FailoverManager._detection_window
detection_window == 3

\* `len(recent_failures) >= 3`
RapidFailures == 3

\* FailoverManager._get_recent_failures: the timestamps it keeps
RecentFailures_All(history, t, window_seconds) == history
RecentFailures(history, t, window_seconds) ==
    LET Recent(timestamp) == timestamp > t - window_seconds
    IN SelectSeq(history, Recent)

\* FailoverManager.should_failover(provider_id): the decision
FailoverDecision(p) ==
    IF ~AllowResult(p)
    THEN [should_failover |-> TRUE, reason |-> "Circuit breaker"]
    ELSE IF ~health_status[p].is_healthy
    THEN [should_failover |-> TRUE, reason |-> "Provider unhealthy"]
    ELSE IF Len(RecentFailures(failure_history[p], now, detection_window)) >= RapidFailures
    THEN [should_failover |-> TRUE, reason |-> "Rapid failures detected"]
    ELSE [should_failover |-> FALSE, reason |-> "Provider healthy"]

\* FailoverManager.should_failover(provider_id)
should_failover(p) ==
    /\ ApplySetState(p, AllowTarget(p))
    /\ probe_run' = [probe_run EXCEPT ![p] = ProbesAfter(p)]
    /\ ResetRunsOnChange(p, fail_run, succ_run)
    /\ failure_history' =
          IF AllowResult(p) /\ health_status[p].is_healthy
          THEN [failure_history EXCEPT
                  ![p] = RecentFailures(@, now, detection_window)]
          ELSE failure_history
    /\ cb_last' = [op |-> "should_failover", provider_id |-> p,
                   allowed |-> AllowResult(p),
                   should_failover |-> FailoverDecision(p).should_failover,
                   reason |-> FailoverDecision(p).reason]
    /\ UNCHANGED <<now, switchVars, routeVars, execVars, health_status>>

\* the 60 of `self._get_recent_failures(pid, 60)`
selection_window == 60

\* select_alternative_provider: `pid != current_provider_id`
Alternatives(current, available) ==
    LET Other(pid) == pid # current IN SelectSeq(available, Other)

\* select_alternative_provider: the alternates found healthy and let through
\* by should_allow_request, in list order
HealthyAlternatives(current, available) ==
    LET Usable(pid) == health_status[pid].is_healthy /\ AllowResult(pid)
    IN SelectSeq(Alternatives(current, available), Usable)

\* min(healthy_alternatives, key=len(recent failures)): the first of the
\* smallest
LeastFailures(healthy) ==
    LET n(k) == Len(RecentFailures(failure_history[healthy[k]], now, selection_window))
    IN healthy[CHOOSE k \in 1..Len(healthy) :
                 \A m \in 1..Len(healthy) : n(k) < n(m) \/ (n(k) = n(m) /\ k <= m)]

\* what select_alternative_provider returns
SelectAlternative(current, available) ==
    IF Len(Alternatives(current, available)) = 0 THEN None
    ELSE IF Len(HealthyAlternatives(current, available)) = 0
    THEN Some(Alternatives(current, available)[1])
    ELSE Some(LeastFailures(HealthyAlternatives(current, available)))

\* FailoverManager.select_alternative_provider(current_provider_id,
\* available_provider_ids)
select_alternative_provider(current, available) ==
    LET alternatives == Alternatives(current, available)
        probed == {alternatives[i] : i \in 1..Len(alternatives)}
        asked == {pid \in probed : health_status[pid].is_healthy}
        healthy == HealthyAlternatives(current, available)
        ranked == {healthy[i] : i \in 1..Len(healthy)}
    IN /\ cb_states' = [pid \in AllProviders |->
             IF pid \in asked THEN AllowTarget(pid) ELSE cb_states[pid]]
       /\ state_change_times' = [pid \in AllProviders |->
             IF pid \in asked
             THEN SetState_Times(cb_states, state_change_times, pid, AllowTarget(pid), now)[pid]
             ELSE state_change_times[pid]]
       /\ cb_redis' = [pid \in AllProviders |->
             IF pid \in asked
             THEN SetState_Redis(cb_states, cb_redis, pid, AllowTarget(pid), now)[pid]
             ELSE cb_redis[pid]]
       /\ fail_run' = [pid \in AllProviders |->
             IF cb_states'[pid] # cb_states[pid] THEN 0 ELSE fail_run[pid]]
       /\ succ_run' = [pid \in AllProviders |->
             IF cb_states'[pid] # cb_states[pid] THEN 0 ELSE succ_run[pid]]
       /\ probe_run' = [pid \in AllProviders |->
             IF pid \in asked THEN ProbesAfter(pid) ELSE probe_run[pid]]
       /\ failure_history' = [pid \in AllProviders |->
             IF pid \in ranked
             THEN RecentFailures(failure_history[pid], now, selection_window)
             ELSE failure_history[pid]]
       /\ cb_last' = [op |-> "select_alternative_provider", provider_id |-> current,
                      allowed |-> TRUE, available |-> available,
                      selected |-> SelectAlternative(current, available)]
       /\ UNCHANGED <<now, switchVars, routeVars, execVars, health_status>>

\* clock readings at which breaker calls are made: before, at and after
\* timeout_seconds
CbTimePoints == {0, 30, 60, 90, 120}

CbTick ==
    /\ \E t \in CbTimePoints : t > now /\ now' = t
    /\ UNCHANGED <<switchVars, circuitVars, routeVars, execVars>>


\* --------------------------------------------------------- RoutingAgent
\* settings.default_model
default_model == "gpt-3.5-turbo"

\* " ".join(msg.content for msg in request.messages) of the requests sent
Contents == {"write code", "hello", "hi"}

\* len(content)
ContentLen(content) ==
    IF content = "write code" THEN 10 ELSE IF content = "hello" THEN 5 ELSE 2

\* re.compile(condition_value) raises re.error
RegexInvalid(pattern) == pattern = "("

\* pattern.search(content) is not None
RegexSearch(pattern, content) ==
    <<pattern, content>> \in {<<"code|function|class", "write code">>,
                              <<"hello|code", "hello">>,
                              <<"hello|code", "write code">>}

\* RoutingAgent._evaluate_rule
EvaluateRule(content, rule) ==
    IF rule.condition_type = "regex"
    THEN ~RegexInvalid(rule.condition_value) /\ RegexSearch(rule.condition_value, content)
    ELSE IF rule.condition_type = "complexity"
    THEN /\ ~(rule.min_complexity # None /\ ContentLen(content) < rule.min_complexity[1])
         /\ ~(rule.max_complexity # None /\ ContentLen(content) > rule.max_complexity[1])
    ELSE FALSE

\* RoutingAgent._get_active_rules: SELECT ... WHERE is_active, each row a new
\* object detached from its (closed) session
IsActiveRow(r) == r.is_active

GetActiveRules == SelectSeq(rules_db, IsActiveRow)

\* sorted(rules, key=lambda r: r.priority, reverse=True): stable, so rules
\* of equal priority keep the order they were read in
SortedRules_Unsorted(rules) == rules
SortedRules(rules) ==
    LET n == Len(rules)
        rank(i) == Cardinality({j \in 1..n :
                       \/ rules[j].priority > rules[i].priority
                       \/ (rules[j].priority = rules[i].priority /\ j < i)})
    IN [k \in 1..n |-> rules[CHOOSE i \in 1..n : rank(i) = k - 1]]

\* index in the sorted list of the first rule that matches, 0 when none does
FirstMatch(sorted, content) ==
    LET hits == {k \in 1..Len(sorted) : EvaluateRule(content, sorted[k])}
    IN IF hits = {} THEN 0 ELSE CHOOSE k \in hits : \A m \in hits : k <= m

\* int(rule.action_value): the decimal strings used as provider ids; any
\* other string raises ValueError
IsIntString(str) == str \in {"1", "2"}
IntOf(str) == IF str = "1" THEN 1 ELSE 2

NoDecision(content, err) ==
    [content |-> content, error |-> err, provider_id |-> None, model_id |-> "",
     rule_id |-> None, method |-> ""]

\* RouteDecision of _rule_based_routing
RuleDecision(content, rule) ==
    IF rule.action_type = "use_provider" /\ ~IsIntString(rule.action_value)
    THEN NoDecision(content, "ValueError")
    ELSE [content |-> content, error |-> "",
          provider_id |-> IF rule.action_type = "use_provider"
                          THEN Some(IntOf(rule.action_value)) ELSE None,
          model_id |-> IF rule.action_type = "use_model"
                       THEN rule.action_value ELSE default_model,
          rule_id |-> Some(rule.id),
          method |-> "rule_based"]

\* `rule.hit_count += 1` on the object of the list being evaluated
BumpHit(sorted, k) == [sorted EXCEPT ![k].hit_count = @ + 1]

\* _weighted_round_robin_routing: active models joined to active providers
ActiveProviderIds ==
    {providers_db[i].id : i \in {j \in 1..Len(providers_db) : providers_db[j].is_active}}

ModelList_IgnoringProviders == SelectSeq(models_db, LAMBDA m : m.is_active)
ModelList ==
    LET ids == ActiveProviderIds
    IN SelectSeq(models_db, LAMBDA m : m.is_active /\ m.provider_id \in ids)

\* model_list.sort(key=(priority, weight), reverse=True)
SortedModels(list) ==
    LET n == Len(list)
        gt(a, b) == \/ a.priority > b.priority
                    \/ (a.priority = b.priority /\ a.weight > b.weight)
        eq(a, b) == a.priority = b.priority /\ a.weight = b.weight
        rank(i) == Cardinality({j \in 1..n :
                       gt(list[j], list[i]) \/ (eq(list[j], list[i]) /\ j < i)})
    IN [k \in 1..n |-> list[CHOOSE i \in 1..n : rank(i) = k - 1]]

\* priority_groups[max(priority_groups.keys())], in sorted order
CandidateModels_All(list) == SortedModels(list)
CandidateModels(list) ==
    LET top == CHOOSE q \in {list[i].priority : i \in 1..Len(list)} :
                   \A i \in 1..Len(list) : list[i].priority <= q
    IN SelectSeq(SortedModels(list), LAMBDA m : m.priority = top)

RECURSIVE SumWeights(_, _)
SumWeights(c, k) == IF k = 0 THEN 0 ELSE c[k].weight + SumWeights(c, k - 1)

\* the first candidate whose cumulative weight exceeds the weighted index
WeightedPick_Plain(c, index) == (index % Len(c)) + 1
WeightedPick(c, index) ==
    LET total == SumWeights(c, Len(c))
        widx == index % total
        hits == {k \in 1..Len(c) : widx < SumWeights(c, k)}
    IN IF hits = {} THEN 1 ELSE CHOOSE k \in hits : \A m \in hits : k <= m

WeightedDecision(content, m) ==
    [content |-> content, error |-> "", provider_id |-> Some(m.provider_id), model_id |-> m.model_id,
     rule_id |-> None, method |-> "weighted_round_robin"]

\* what a caller's list of the decisions holds after one more selection
PickOf(m) == [provider_id |-> m.provider_id, model_id |-> m.model_id]

\* the weighted fallback of route(), as an action on the routing agent
WeightedRouting(content) ==
    LET list == ModelList IN
    IF Len(list) = 0
    THEN /\ route_last' = NoDecision(content, "No active models available")
         /\ UNCHANGED <<round_robin_index, picks>>
    ELSE LET c == CandidateModels(list)
             m == c[WeightedPick(c, round_robin_index)] IN
         /\ round_robin_index < MaxRoundRobin
         /\ route_last' = WeightedDecision(content, m)
         /\ round_robin_index' = round_robin_index + 1
         /\ picks' = Append(picks, PickOf(m))

\* RoutingAgent._weighted_round_robin_routing() called on its own
weighted_round_robin_routing ==
    LET list == ModelList IN
    /\ IF Len(list) = 0
       THEN /\ route_last' = NoDecision("", "No active models available")
            /\ UNCHANGED <<round_robin_index, picks>>
       ELSE LET c == CandidateModels(list)
                m == c[WeightedPick(c, round_robin_index)] IN
            /\ round_robin_index < MaxSelections
            /\ route_last' = WeightedDecision("", m)
            /\ round_robin_index' = round_robin_index + 1
            /\ picks' = Append(picks, PickOf(m))
    /\ UNCHANGED <<now, switchVars, circuitVars, execVars, rules_db, providers_db,
                   models_db, loaded_rules>>

\* `if preferred_provider and preferred_model`: both given and truthy
FixedRequested_Never(preferred_model, preferred_provider) == FALSE
FixedRequested(preferred_model, preferred_provider) ==
    /\ preferred_provider # None /\ preferred_provider[1] # 0
    /\ preferred_model # None /\ preferred_model[1] # ""

\* RoutingAgent.route(request, preferred_model, preferred_provider): its
\* effect on the clock, the switch, the breaker and the routing agent
RouteBody(content, preferred_model, preferred_provider) ==
    IF FixedRequested(preferred_model, preferred_provider)
    THEN /\ route_last' = [content |-> content, error |-> "",
                           provider_id |-> preferred_provider,
                           model_id |-> preferred_model[1], rule_id |-> None,
                           method |-> "fixed"]
         /\ UNCHANGED <<now, switchVars, circuitVars, rules_db, providers_db,
                        models_db, loaded_rules, round_robin_index, picks>>
    ELSE \* orchestrator.get_status()
         /\ PendingDue(sw, now) => Executed < MaxSwitches
         /\ sw' = ProcessPendingMem(sw, now)
         /\ redis' = ProcessPendingRedis(sw, redis, now)
         /\ db_history' = ProcessPendingDb(sw, db_history, now)
         /\ last' = [op |-> "get_status", error |-> "",
                     info |-> SwitchInfo(sw', now), ret |-> sw'.enabled]
         /\ LET sorted == SortedRules(GetActiveRules)
                k == FirstMatch(sorted, content)
            IN IF sw'.enabled /\ k # 0
               THEN /\ loaded_rules' = BumpHit(sorted, k)
                    /\ route_last' = RuleDecision(content, sorted[k])
                    /\ UNCHANGED <<round_robin_index, picks>>
               ELSE /\ loaded_rules' = IF sw'.enabled THEN sorted ELSE loaded_rules
                    /\ WeightedRouting(content)
         /\ UNCHANGED <<now, lastToggle, circuitVars, rules_db, providers_db, models_db>>

route(content, preferred_model, preferred_provider) ==
    /\ RouteBody(content, preferred_model, preferred_provider)
    /\ UNCHANGED execVars

\* clock readings at which orchestrator calls are made: around the delays
\* callers pass, at the start of the first two cooldown-long windows
TimePoints == {w * CooldownSeconds + k : w \in {0, 1}, k \in {0, 5, 10, 15}}

\* the clock advances between calls
Tick ==
    /\ \E t \in TimePoints : t > now /\ now' = t
    /\ UNCHANGED <<switchVars, circuitVars, routeVars, execVars>>

\* rule and model configurations the routing agent is run against
Rule(id, ctype, cvalue, minc, maxc, atype, avalue, priority, active) ==
    [id |-> id, condition_type |-> ctype, condition_value |-> cvalue,
     min_complexity |-> minc, max_complexity |-> maxc, action_type |-> atype,
     action_value |-> avalue, priority |-> priority, is_active |-> active,
     hit_count |-> 0]

Priorities == {10, 20}

\* which rule is switched off, and what the third rule's condition is
RuleVariations ==
    {<<0, "regex", "hello|code">>, <<1, "regex", "hello|code">>,
     <<0, "regex", "(">>, <<0, "keyword", "hello">>}

RuleSets ==
    {<<Rule(1, "regex", "code|function|class", Some(10), Some(10000), "use_model", "gpt-4", p1, v[1] # 1),
       Rule(2, "complexity", "", Some(5), None, "use_provider", "2", p2, TRUE),
       Rule(3, v[2], v[3], None, None, "use_model", "claude-3", p3, TRUE)>> :
        p1 \in Priorities, p2 \in Priorities, p3 \in Priorities,
        v \in RuleVariations}

Permutations3 == {<<1, 2, 3>>, <<1, 3, 2>>, <<2, 1, 3>>, <<2, 3, 1>>, <<3, 1, 2>>, <<3, 2, 1>>}

Model(model_id, provider_id, priority, weight, active) ==
    [model_id |-> model_id, provider_id |-> provider_id, priority |-> priority,
     weight |-> weight, is_active |-> active]

ModelConfig ==
    <<Model("gpt-4", 1, 10, 2, TRUE), Model("claude-3", 2, 10, 1, TRUE),
      Model("gpt-3.5-turbo", 1, 5, 3, TRUE), Model("gpt-4o", 1, 20, 1, FALSE)>>

InitRouteVarsFixed ==
    /\ rules_db = <<>>
    /\ providers_db = <<[id |-> 1, is_active |-> TRUE], [id |-> 2, is_active |-> TRUE]>>
    /\ models_db = <<>>
    /\ loaded_rules = <<>>
    /\ round_robin_index = 0
    /\ route_last = NoDecision("", "")
    /\ picks = <<>>

\* RoutingAgent.__init__: no provider instance cached, nothing executed
NoResult ==
    [outcome |-> "none", success |-> FALSE, provider_id |-> None, model_id |-> "",
     error_message |-> "", calls |-> 0, sleeps |-> <<>>, recorded |-> 0,
     backends |-> {}]

\* MetricsCollector.__init__ / LoadBalancer.__init__
InitLbVars ==
    /\ metrics_cache = [p \in AllProviders |-> None]
    /\ metrics_redis = [p \in AllProviders |-> None]
    /\ connection_counts = [p \in AllProviders |-> 0]
    /\ lb_round_robin_index = 0
    /\ lb_last = [op |-> "init", error |-> "", selected |-> None]
    /\ in_flight = [p \in AllProviders |-> 0]

\* HealthChecker.__init__: _running False, no _check_task; nothing probed
\* yet (rounds: the rounds started so far)
InitMonitor ==
    [running |-> FALSE, pc |-> "none", queue |-> <<>>, visited |-> <<>>,
     rounds |-> 0]

\* ids of the coroutines that can be in progress at the same time
TaskIds == {1, 2, 3}

\* a coroutine that has not been called, or has returned
Idle == [pc |-> "idle"]

InitProcVars ==
    /\ monitor = InitMonitor
    /\ tasks = [i \in TaskIds |-> Idle]
    /\ peer = InitSwitch

InitExecVars ==
    /\ providers_cache = {}
    /\ decisions_db = <<>>
    /\ exec_last = NoResult
    /\ http_last = 0
    /\ InitLbVars
    /\ InitProcVars

InitOther ==
    /\ now = 0
    /\ InitCircuitVars
    /\ sw = InitSwitch
    /\ redis = InitRedis
    /\ db_history = <<>>
    /\ last = [op |-> "init", error |-> "", info |-> NoInfo, ret |-> FALSE]
    /\ lastToggle = [kind |-> "none", force |-> FALSE, value |-> FALSE, at |-> 0,
                     delay |-> 0, pre |-> InitSwitch]
    /\ InitExecVars

Init == InitOther /\ InitRouteVarsFixed

InitRoute ==
    /\ InitOther
    /\ \E rs \in RuleSets, perm \in Permutations3 :
          rules_db = [k \in 1..3 |-> rs[perm[k]]]
    /\ providers_db = <<[id |-> 1, is_active |-> TRUE], [id |-> 2, is_active |-> TRUE]>>
    /\ models_db = ModelConfig
    /\ loaded_rules = <<>>
    /\ round_robin_index = 0
    /\ route_last = NoDecision("", "")
    /\ picks = <<>>

NextSwitch ==
    \/ get_status
    \/ is_enabled
    \/ \E value \in BOOLEAN, force \in BOOLEAN, delay \in Delays :
          toggle(value, force, delay)
    \/ Tick

SpecSwitch == Init /\ [][NextSwitch]_vars

\* clock readings around a default-delay toggle made at 0: its scheduled
\* time (10), the end of the pending key's TTL (10 + 60) and the end of the
\* cooldown a switch executed at 10 starts (310)
PersistTimePoints == {0, 10, 60, 70, 310}

PersistTick ==
    /\ \E t \in PersistTimePoints : t > now /\ now' = t
    /\ UNCHANGED <<switchVars, circuitVars, routeVars, execVars>>

NextPersist ==
    \/ get_status
    \/ \E value \in BOOLEAN, force \in BOOLEAN, delay \in Delays :
          toggle(value, force, delay)
    \/ restart
    \/ PersistTick

SpecPersist == Init /\ [][NextPersist]_vars

\* the history an orchestrator has after k forced toggles made 1000 s apart
\* before the clock reading 0, alternating and ending with enabled = true:
\* entry i of the list is the i-th most recent
PastEntry(i) ==
    HistoryEntry(i % 2 = 0, i % 2 = 1, "manual", "admin", 0 - 1000 * i)

PastSwitches == {0, HistoryCap - 1}

\* limit arguments of get_history
Limits == {0, 1, 2, HistoryCap}

HistoryTimePoints == {0, 10}

HistoryTick ==
    /\ \E t \in HistoryTimePoints : t > now /\ now' = t
    /\ UNCHANGED <<switchVars, circuitVars, routeVars, execVars>>

\* a process started (and initialized) after k earlier switches: the cooldown
\* key of the last one has expired, the enabled key and the log are there
InitHistory ==
    /\ now = 0
    /\ InitCircuitVars
    /\ InitRouteVarsFixed
    /\ InitExecVars
    /\ sw = InitSwitch
    /\ \E k \in PastSwitches :
          /\ redis = [pending |-> None, cooldown |-> None,
                      enabled |-> IF k = 0 THEN None ELSE Some("true"),
                      history |-> [i \in 1..k |-> PastEntry(i)]]
          /\ db_history = [i \in 1..k |-> PastEntry(k + 1 - i)]
    /\ last = [op |-> "init", error |-> "", info |-> NoInfo, ret |-> FALSE]
    /\ lastToggle = [kind |-> "none", force |-> FALSE, value |-> FALSE, at |-> 0,
                     delay |-> 0, pre |-> InitSwitch]

NextHistory ==
    \/ get_status
    \/ \E value \in BOOLEAN, force \in BOOLEAN : toggle(value, force, None)
    \/ \E limit \in Limits : get_history(limit)
    \/ get_metrics
    \/ HistoryTick

SpecHistory == InitHistory /\ [][NextHistory]_vars

NextCircuit ==
    \/ \E p \in Providers : should_allow_request(p)
    \/ \E p \in Providers : record_failure(p)
    \/ \E p \in Providers : record_success(p)
    \/ \E p \in Providers, is_healthy \in BOOLEAN : update_health_status(p, is_healthy)
    \/ CbTick

SpecCircuit == Init /\ [][NextCircuit]_vars

\* clock readings at which failover calls are made: inside, at and after the
\* detection window of failures recorded at 0, and at and after
\* timeout_seconds
FailoverTimePoints == {0, 2, 3, 60, 61}

FailoverTick ==
    /\ \E t \in FailoverTimePoints : t > now /\ now' = t
    /\ UNCHANGED <<switchVars, circuitVars, routeVars, execVars>>

NextFailover ==
    \/ \E p \in Providers : should_failover(p)
    \/ \E p \in Providers : record_failure(p)
    \/ \E p \in Providers : record_success(p)
    \/ \E p \in Providers, is_healthy \in BOOLEAN : update_health_status(p, is_healthy)
    \/ FailoverTick

SpecFailover == Init /\ [][NextFailover]_vars

SpecMonitor == Init /\ [][NextMonitor]_vars

\* ------------------------------------- MetricsCollector / LoadBalancer
\* MetricsCollector._cache_ttl
cache_ttl == 30

\* ttl of the provider_metrics key
MetricsTtl == 300

\* `m.total_requests >= 5`
MinLatencySamples == 5

\* `metrics.failed_requests > 5`
UnhealthyAfterFailures == 5

\* providers rows the collector reads (weight, region, status == ACTIVE)
ProviderRow(p) ==
    IF p = 1 THEN [weight |-> 1, region |-> "us", active |-> TRUE]
    ELSE IF p = 2 THEN [weight |-> 2, region |-> "eu", active |-> TRUE]
    ELSE [weight |-> 1, region |-> "us", active |-> FALSE]

\* get_provider_metrics, lines 101-143: ProviderMetrics built from the
\* providers row and the provider_metrics key (when it has not expired)
FetchMetrics(p, t) ==
    LET row == ProviderRow(p)
        r == metrics_redis[p]
    IN IF r # None /\ t < r[1].expire_at
       THEN [provider_id |-> p, weight |-> row.weight, region |-> row.region,
             current_connections |-> r[1].current_connections,
             total_requests |-> r[1].total_requests,
             successful_requests |-> r[1].successful_requests,
             failed_requests |-> r[1].failed_requests,
             avg_latency_ms |-> r[1].avg_latency_ms,
             is_healthy |-> r[1].is_healthy, last_updated |-> t]
       ELSE [provider_id |-> p, weight |-> row.weight, region |-> row.region,
             current_connections |-> 0, total_requests |-> 0,
             successful_requests |-> 0, failed_requests |-> 0,
             avg_latency_ms |-> 0, is_healthy |-> row.active, last_updated |-> t]

\* get_provider_metrics(provider_id, force_refresh): the object it returns
\* (the cached one while it is younger than cache_ttl)
GetProviderMetrics(p, t, force_refresh) ==
    IF ~force_refresh /\ metrics_cache[p] # None
         /\ t - metrics_cache[p][1].last_updated < cache_ttl
    THEN metrics_cache[p][1]
    ELSE FetchMetrics(p, t)

\* _round_robin: index of the selected entry
RoundRobinPick(ms, index) == (index % Len(ms)) + 1

\* sorted(metrics_list, key=current_connections)[0]: the first of the
\* smallest
LeastConnectionsPick(ms) ==
    CHOOSE k \in 1..Len(ms) : \A m \in 1..Len(ms) :
        \/ ms[k].current_connections < ms[m].current_connections
        \/ (ms[k].current_connections = ms[m].current_connections /\ k <= m)

\* sorted(..., key=avg_latency_ms)[0] and min(..., key=avg_latency_ms)
LeastLatencyPick(ms) ==
    CHOOSE k \in 1..Len(ms) : \A m \in 1..Len(ms) :
        \/ ms[k].avg_latency_ms < ms[m].avg_latency_ms
        \/ (ms[k].avg_latency_ms = ms[m].avg_latency_ms /\ k <= m)

MaxOf(S) == CHOOSE x \in S : \A y \in S : x >= y

\* _adaptive.calculate_score as the exact fraction num / den (den > 0):
\* 0.40 success rate + 0.30 latency + 0.20 connections + 0.10 weight, the
\* four weights in tenths
AdaptiveScore(m, ms) ==
    LET top(f(_)) == MaxOf({f(ms[k]) : k \in 1..Len(ms)})
        lat(x) == x.avg_latency_ms
        con(x) == x.current_connections
        wgt(x) == x.weight
        max_latency == IF top(lat) = 0 THEN 100 ELSE top(lat)
        max_connections == IF top(con) = 0 THEN 1 ELSE top(con)
        max_weight == IF top(wgt) = 0 THEN 1 ELSE top(wgt)
        sn == IF m.total_requests = 0 THEN 1 ELSE m.successful_requests
        sd == IF m.total_requests = 0 THEN 1 ELSE m.total_requests
    IN [num |-> 4 * sn * max_latency * max_connections * max_weight
                + 3 * sd * (max_latency - m.avg_latency_ms) * max_connections * max_weight
                + 2 * sd * max_latency * (max_connections - m.current_connections) * max_weight
                + 1 * sd * max_latency * max_connections * m.weight,
        den |-> 10 * sd * max_latency * max_connections * max_weight]

\* max(scored, key=score): the first of the highest
AdaptivePick(ms) ==
    LET sc == [k \in 1..Len(ms) |-> AdaptiveScore(ms[k], ms)]
        above(a, b) == a.num * b.den > b.num * a.den
        same(a, b) == a.num * b.den = b.num * a.den
    IN CHOOSE k \in 1..Len(ms) : \A m \in 1..Len(ms) :
          above(sc[k], sc[m]) \/ (same(sc[k], sc[m]) /\ k <= m)

Strategies == {"round_robin", "weighted_round_robin", "least_connections",
               "least_latency", "region_aware", "adaptive"}

\* the strategy functions: the provider selected, and whether the call
\* advances _round_robin_index (bump) or counts a connection (connect)
StrategyPick(strategy, ms, index, user_region) ==
    LET Sampled(m) == m.total_requests >= MinLatencySamples
        Near(m) == user_region # None /\ m.region = user_region[1]
        valid_metrics == SelectSeq(ms, Sampled)
        same_region == SelectSeq(ms, Near)
        weighted == [provider_id |-> ms[WeightedPick(ms, index)].provider_id,
                     bump |-> TRUE, connect |-> FALSE]
    IN IF strategy = "round_robin"
       THEN [provider_id |-> ms[RoundRobinPick(ms, index)].provider_id,
             bump |-> TRUE, connect |-> FALSE]
       ELSE IF strategy = "weighted_round_robin" THEN weighted
       ELSE IF strategy = "least_connections"
       THEN [provider_id |-> ms[LeastConnectionsPick(ms)].provider_id,
             bump |-> FALSE, connect |-> TRUE]
       ELSE IF strategy = "least_latency"
       THEN IF Len(valid_metrics) = 0 THEN weighted
            ELSE [provider_id |-> valid_metrics[LeastLatencyPick(valid_metrics)].provider_id,
                  bump |-> FALSE, connect |-> FALSE]
       ELSE IF strategy = "region_aware"
       THEN IF Len(same_region) = 0 THEN weighted
            ELSE [provider_id |-> same_region[LeastLatencyPick(same_region)].provider_id,
                  bump |-> FALSE, connect |-> FALSE]
       ELSE [provider_id |-> ms[AdaptivePick(ms)].provider_id,
             bump |-> FALSE, connect |-> FALSE]

\* select_provider: the metrics list the strategy is applied to
HealthyOnly(all_metrics) ==
    LET Healthy(m) == m.is_healthy IN SelectSeq(all_metrics, Healthy)

\* LoadBalancer.select_provider(provider_ids, strategy, user_region,
\* exclude_unhealthy)
select_provider(provider_ids, strategy, user_region, exclude_unhealthy) ==
    IF Len(provider_ids) = 0
    THEN /\ lb_last' = [op |-> "select_provider", error |-> "No providers available",
                        selected |-> None, provider_ids |-> provider_ids,
                        exclude_unhealthy |-> exclude_unhealthy]
         /\ UNCHANGED <<metrics_cache, metrics_redis, connection_counts,
                        lb_round_robin_index, in_flight>>
         /\ UNCHANGED <<now, switchVars, circuitVars, routeVars, providers_cache,
                        decisions_db, exec_last, http_last, procVars>>
    ELSE LET ids == {provider_ids[i] : i \in 1..Len(provider_ids)}
             fetched == [i \in 1..Len(provider_ids) |->
                           GetProviderMetrics(provider_ids[i], now, FALSE)]
             kept == IF exclude_unhealthy THEN HealthyOnly(fetched) ELSE fetched
         IN \E all_metrics \in {IF Len(kept) = 0 THEN fetched ELSE kept} :
            \E pick \in {StrategyPick(strategy, all_metrics, lb_round_robin_index,
                                      user_region)} :
            LET sel == pick.provider_id IN
            /\ metrics_cache' = [p \in AllProviders |->
                  IF p \notin ids THEN metrics_cache[p]
                  ELSE IF pick.connect /\ p = sel
                  THEN Some([GetProviderMetrics(p, now, FALSE) EXCEPT
                               !.current_connections = @ + 1])
                  ELSE Some(GetProviderMetrics(p, now, FALSE))]
            /\ connection_counts' =
                  IF pick.connect
                  THEN [connection_counts EXCEPT
                          ![sel] = metrics_cache'[sel][1].current_connections]
                  ELSE connection_counts
            /\ lb_round_robin_index' =
                  IF pick.bump THEN lb_round_robin_index + 1 ELSE lb_round_robin_index
            /\ in_flight' = IF pick.connect
                            THEN [in_flight EXCEPT ![sel] = @ + 1]
                            ELSE in_flight
            /\ lb_last' = [op |-> "select_provider", error |-> "",
                           selected |-> Some(sel), provider_ids |-> provider_ids,
                           exclude_unhealthy |-> exclude_unhealthy]
            /\ UNCHANGED metrics_redis
            /\ UNCHANGED <<now, switchVars, circuitVars, routeVars, providers_cache,
                           decisions_db, exec_last, http_last, procVars>>

\* LoadBalancer.release_connection(provider_id), called when a request sent
\* to the backend has completed
release_connection(p) ==
    /\ in_flight[p] > 0
    /\ connection_counts' =
          IF connection_counts[p] > 0
          THEN [connection_counts EXCEPT ![p] = @ - 1]
          ELSE connection_counts
    /\ in_flight' = [in_flight EXCEPT ![p] = @ - 1]
    /\ lb_last' = [op |-> "release_connection", error |-> "", selected |-> Some(p)]
    /\ UNCHANGED <<metrics_cache, metrics_redis, lb_round_robin_index>>
    /\ UNCHANGED <<now, switchVars, circuitVars, routeVars, providers_cache,
                   decisions_db, exec_last, http_last, procVars>>

\* the latency a completed request reports, in ms
RequestLatency == 100

\* MetricsCollector.update_provider_metrics(provider_id, success, latency_ms)
UpdatedMetrics(p, t, success) ==
    LET m == GetProviderMetrics(p, t, TRUE)
        total == m.total_requests + 1
        ok == m.successful_requests + (IF success THEN 1 ELSE 0)
        failed == m.failed_requests + (IF success THEN 0 ELSE 1)
    IN [m EXCEPT
          !.total_requests = total,
          !.successful_requests = ok,
          !.failed_requests = failed,
          !.avg_latency_ms = IF total = 1 THEN RequestLatency
                             ELSE (2 * RequestLatency + 8 * @) \div 10,
          !.is_healthy = IF ~success /\ failed > UnhealthyAfterFailures THEN FALSE
                         ELSE IF success /\ 10 * ok > 9 * total THEN TRUE
                         ELSE @,
          !.last_updated = t]

update_provider_metrics(p, success) ==
    LET m == UpdatedMetrics(p, now, success)
    IN /\ metrics_cache' = [metrics_cache EXCEPT ![p] = Some(m)]
       /\ metrics_redis' = [metrics_redis EXCEPT ![p] =
             Some([current_connections |-> m.current_connections,
                   total_requests |-> m.total_requests,
                   successful_requests |-> m.successful_requests,
                   failed_requests |-> m.failed_requests,
                   avg_latency_ms |-> m.avg_latency_ms,
                   is_healthy |-> m.is_healthy,
                   expire_at |-> now + MetricsTtl])]
       /\ lb_last' = [op |-> "update_provider_metrics", error |-> "",
                      selected |-> Some(p)]
       /\ UNCHANGED <<connection_counts, lb_round_robin_index, in_flight>>
       /\ UNCHANGED <<now, switchVars, circuitVars, routeVars, providers_cache,
                      decisions_db, exec_last, http_last, procVars>>

\* what the health checker and the breaker hold for a backend before the
\* first failover call: never probed; last probe failed; or circuit opened at
\* time 0 by a recorded failure after failure_threshold failed probes, with a
\* successful probe since
BackendProfiles == {"fresh", "unhealthy", "open"}

ProfileHealth(profile) ==
    IF profile = "fresh" THEN DefaultHealth
    ELSE IF profile = "unhealthy" THEN UpdateHealth(DefaultHealth, FALSE)
    ELSE UpdateHealth(DefaultHealth, TRUE)

\* available_provider_ids lists passed to select_alternative_provider
AvailableLists == {<<>>, <<1>>, <<1, 2, 3>>, <<3, 2, 1>>, <<2, 3>>}

AltMaxFailures == 2

\* the backends failures are recorded for
FailingBackends == {1, 2}

AltTimePoints == {0, 5}

AltTick ==
    /\ \E t \in AltTimePoints : t > now /\ now' = t
    /\ UNCHANGED <<switchVars, circuitVars, routeVars, execVars>>

InitAlternative ==
    /\ now = 0
    /\ sw = InitSwitch
    /\ redis = InitRedis
    /\ db_history = <<>>
    /\ last = [op |-> "init", error |-> "", info |-> NoInfo, ret |-> FALSE]
    /\ lastToggle = [kind |-> "none", force |-> FALSE, value |-> FALSE, at |-> 0,
                     delay |-> 0, pre |-> InitSwitch]
    /\ InitRouteVarsFixed
    /\ InitExecVars
    /\ \E profile \in [AllProviders -> BackendProfiles] :
          /\ profile[1] = "fresh"
          /\ health_status = [p \in AllProviders |-> ProfileHealth(profile[p])]
          /\ cb_states = [p \in AllProviders |->
                            IF profile[p] = "open" THEN "open" ELSE "closed"]
          /\ state_change_times = [p \in AllProviders |->
                            IF profile[p] = "open" THEN Some(0) ELSE None]
          /\ cb_redis = [p \in AllProviders |->
                            IF profile[p] = "open"
                            THEN Some([value |-> "open", expire_at |-> CircuitTtl])
                            ELSE None]
          /\ failure_history = [p \in AllProviders |->
                            IF profile[p] = "open" THEN <<0>> ELSE <<>>]
    /\ cb_last = [op |-> "init", provider_id |-> 0, allowed |-> TRUE]
    /\ fail_run = [p \in AllProviders |-> 0]
    /\ succ_run = [p \in AllProviders |-> 0]
    /\ probe_run = [p \in AllProviders |-> 0]

NextAlternative ==
    \/ \E p \in FailingBackends :
          Len(failure_history[p]) < AltMaxFailures /\ record_failure(p)
    \/ \E p \in AllProviders : should_failover(p)
    \/ \E current \in AllProviders, available \in AvailableLists :
          select_alternative_provider(current, available)
    \/ AltTick

SpecAlternative == InitAlternative /\ [][NextAlternative]_vars

\* provider_ids lists passed to select_provider
CandidateLists == {<<>>, <<1, 2>>, <<3>>, <<2, 1, 3>>}

\* user_region arguments
Regions == {None, Some("us")}

LbMaxIndex == 2
LbMaxConnections == 2
LbMaxSelections == 3
LbMaxRequests == 6

Connections == in_flight[1] + in_flight[2] + in_flight[3]

\* clock readings at which balancer calls are made: before and at the end of
\* cache_ttl
LbTimePoints == {0, 30}

LbTick ==
    /\ \E t \in LbTimePoints : t > now /\ now' = t
    /\ UNCHANGED <<switchVars, circuitVars, routeVars, execVars>>

\* total_requests the collector holds for a backend
Requests(p) ==
    IF metrics_cache[p] = None THEN 0 ELSE metrics_cache[p][1].total_requests

\* the current_connections the next least-connections selection compares
Compared(p) ==
    GetProviderMetrics(p, now, FALSE).current_connections

\* a selection the bounds leave room for
SelectAllowed ==
    /\ lb_round_robin_index' <= LbMaxIndex
    /\ Connections' <= LbMaxConnections
    /\ \A p \in AllProviders :
          metrics_cache'[p] # None =>
              metrics_cache'[p][1].current_connections <= LbMaxSelections

\* circuits closed (1) and closed or open (2, 3) before the first selection
InitBalance ==
    /\ InitAlternative
    /\ \A p \in AllProviders : health_status[p] # ProfileHealth("unhealthy")

\* the balancer at work next to a breaker whose circuits are closed or open
NextBalance ==
    \/ \E provider_ids \in CandidateLists, strategy \in Strategies,
          exclude_unhealthy \in BOOLEAN :
          \E user_region \in IF strategy = "region_aware" THEN Regions ELSE {None} :
             /\ select_provider(provider_ids, strategy, user_region, exclude_unhealthy)
             /\ SelectAllowed
    \/ \E p \in Providers :
          /\ Requests(p) < LbMaxRequests
          /\ update_provider_metrics(p, FALSE)

SpecBalance == InitBalance /\ [][NextBalance]_vars

\* least-connections selections, completions, metric updates and cache expiry
NextConnections ==
    \/ \E provider_ids \in {<<1, 2>>, <<2, 1>>} :
          /\ select_provider(provider_ids, "least_connections", None, TRUE)
          /\ SelectAllowed
    \/ \E p \in AllProviders : release_connection(p)
    \/ \E p \in Providers, success \in BOOLEAN :
          /\ Requests(p) < LbMaxConnections
          /\ update_provider_metrics(p, success)
    \/ LbTick

SpecConnections == Init /\ [][NextConnections]_vars

\* ------------------------------- coroutines interleaved at their awaits
\* One event loop runs the coroutines: a step of a coroutine is the code
\* between two awaits that suspend, and steps of different coroutines
\* interleave in any order.

\* the counter value a selection computes its index from: the value the
\* counter has when the code after the last await runs (seen: its value when
\* the coroutine was called)
CounterRead_AtCall(t, index) == t.seen
CounterRead(t, index) == index

RouteTaskUnchanged ==
    UNCHANGED <<now, switchVars, circuitVars, rules_db, providers_db, models_db,
                loaded_rules, providers_cache, decisions_db, exec_last, http_last,
                lbVars, monitor, peer>>

\* _weighted_round_robin_routing() is called
routing_call(i) ==
    /\ tasks[i].pc = "idle"
    /\ tasks' = [tasks EXCEPT ![i] =
          [pc |-> "select_providers", kind |-> "route", seen |-> round_robin_index]]
    /\ UNCHANGED <<round_robin_index, route_last, picks>>
    /\ RouteTaskUnchanged

\* `providers = await SessionManager.execute_select(...)` returns
routing_providers(i) ==
    /\ tasks[i].pc = "select_providers"
    /\ tasks' = [tasks EXCEPT ![i] =
          [pc |-> "select_models", kind |-> "route", seen |-> tasks[i].seen,
           providers |-> ActiveProviderIds]]
    /\ UNCHANGED <<round_robin_index, route_last, picks>>
    /\ RouteTaskUnchanged

\* `models = await SessionManager.execute_select(...)` returns and the rest
\* of _weighted_round_robin_routing runs to its return
routing_models(i) ==
    /\ tasks[i].pc = "select_models"
    /\ LET t == tasks[i]
           list == SelectSeq(models_db,
                     LAMBDA m : m.is_active /\ m.provider_id \in t.providers)
       IN IF Len(list) = 0
          THEN /\ tasks' = [tasks EXCEPT ![i] =
                     [pc |-> "done", kind |-> "route_error", seen |-> t.seen]]
               /\ route_last' = NoDecision("", "No active models available")
               /\ UNCHANGED <<round_robin_index, picks>>
          ELSE \E c \in {CandidateModels(list)} :
               \E used \in {CounterRead(t, round_robin_index)} :
               LET m == c[WeightedPick(c, used)]
               IN /\ tasks' = [tasks EXCEPT ![i] =
                        [pc |-> "done", kind |-> "route", seen |-> t.seen,
                         used |-> used, pick |-> PickOf(m)]]
                  /\ round_robin_index' = round_robin_index + 1
                  /\ route_last' = WeightedDecision("", m)
                  /\ picks' = Append(picks, PickOf(m))
    /\ RouteTaskUnchanged

BalanceTaskUnchanged ==
    UNCHANGED <<now, switchVars, circuitVars, routeVars, providers_cache,
                decisions_db, exec_last, http_last, metrics_redis,
                connection_counts, in_flight, monitor, peer>>

ReadTaskUnchanged ==
    UNCHANGED <<now, lastToggle, circuitVars, routeVars, providers_cache,
                decisions_db, exec_last, http_last, lbVars, monitor, peer>>

\* the status reads that resolve a pending switch before they answer
StatusReads == {"get_status", "is_enabled"}

\* what a status read returns once _process_pending_switch is through
ReadReturns(op) ==
    [op |-> op, error |-> "", info |-> SwitchInfo(sw, now), ret |-> sw.enabled]

\* get_status() / is_enabled() is called: _process_pending_switch runs to its
\* first await (`redis = await RedisConfig.get_client()`) when the switch is
\* due, and the read returns at once when it is not
status_call(i, op) ==
    /\ tasks[i].pc = "idle"
    /\ IF PendingDue(sw, now)
       THEN /\ sw' = ProcessPendingMem(sw, now)
            /\ tasks' = [tasks EXCEPT ![i] =
                  [pc |-> "store_switch", kind |-> "read", op |-> op,
                   applied |-> TRUE, old_enabled |-> sw.enabled]]
            /\ UNCHANGED last
       ELSE /\ tasks' = [tasks EXCEPT ![i] =
                  [pc |-> "done", kind |-> "read", op |-> op, applied |-> FALSE]]
            /\ last' = ReadReturns(op)
            /\ UNCHANGED sw
    /\ UNCHANGED <<redis, db_history>>
    /\ ReadTaskUnchanged

\* redis.set(COOLDOWN, str(self._cooldown_until), ex=300),
\* redis.delete(PENDING) and redis.set(ENABLED, ...) have returned
status_store(i) ==
    /\ tasks[i].pc = "store_switch"
    /\ redis' = [redis EXCEPT
          !.cooldown = Some([value |-> sw.cooldown_until[1],
                             expire_at |-> now + CooldownSeconds]),
          !.pending = None,
          !.enabled = Some(BoolStr(sw.enabled))]
    /\ tasks' = [tasks EXCEPT ![i].pc = "record_history"]
    /\ UNCHANGED <<sw, db_history, last>>
    /\ ReadTaskUnchanged

\* _record_history has returned (row inserted, lpush, ltrim) and the read
\* returns
status_record(i) ==
    /\ tasks[i].pc = "record_history"
    /\ LET e == HistoryEntry(tasks[i].old_enabled, sw.enabled, "Scheduled switch",
                             "system", now)
       IN /\ db_history' = Append(db_history, e)
          /\ redis' = [redis EXCEPT !.history = PushHistory(@, e)]
    /\ tasks' = [tasks EXCEPT ![i] =
          [pc |-> "done", kind |-> "read", op |-> tasks[i].op, applied |-> TRUE]]
    /\ last' = ReadReturns(tasks[i].op)
    /\ UNCHANGED sw
    /\ ReadTaskUnchanged

\* clock readings of the reads: before, at and after the scheduled time of
\* a switch scheduled at 0 with the default delay
ReadTimePoints == {0, 5, 10, 12}

ReadTick ==
    /\ \E t \in ReadTimePoints : t > now /\ now' = t
    /\ UNCHANGED <<switchVars, circuitVars, routeVars, execVars>>

\* one switch is scheduled, before any of the status reads is called
NextReads ==
    \/ \E value \in BOOLEAN :
          /\ lastToggle.kind = "none"
          /\ \A i \in TaskIds : tasks[i].pc = "idle"
          /\ toggle(value, FALSE, None)
    \/ \E i \in TaskIds, op \in StatusReads : status_call(i, op)
    \/ \E i \in TaskIds : status_store(i)
    \/ \E i \in TaskIds : status_record(i)
    \/ ReadTick

SpecReads == Init /\ [][NextReads]_vars

UpdateTaskUnchanged ==
    UNCHANGED <<now, switchVars, circuitVars, routeVars, providers_cache,
                decisions_db, exec_last, http_last, connection_counts,
                lb_round_robin_index, in_flight, monitor, peer>>

\* the backend the concurrent update_provider_metrics calls report on
UpdatedBackend == 1

\* update_provider_metrics(provider_id, success, latency_ms) is called and
\* get_provider_metrics(force_refresh=True) awaits the SELECT of the provider
update_call(i, success) ==
    /\ tasks[i].pc = "idle"
    /\ tasks' = [tasks EXCEPT ![i] =
          [pc |-> "select_provider", kind |-> "update", success |-> success]]
    /\ UNCHANGED <<metrics_cache, metrics_redis, lb_last>>
    /\ UpdateTaskUnchanged

\* the SELECT returns; `await RedisService.get(redis_key)`
update_select(i) ==
    /\ tasks[i].pc = "select_provider"
    /\ tasks' = [tasks EXCEPT ![i].pc = "redis_get"]
    /\ UNCHANGED <<metrics_cache, metrics_redis, lb_last>>
    /\ UpdateTaskUnchanged

\* RedisService.get returns: the ProviderMetrics object is built and cached,
\* the counters, latency and health flag are updated on it, and
\* `await RedisService.set(...)` is reached
update_get(i) ==
    /\ tasks[i].pc = "redis_get"
    /\ \E m \in {UpdatedMetrics(UpdatedBackend, now, tasks[i].success)} :
          /\ tasks' = [tasks EXCEPT ![i] =
                [pc |-> "redis_set", kind |-> "update",
                 success |-> tasks[i].success, metrics |-> m]]
          /\ metrics_cache' = [metrics_cache EXCEPT ![UpdatedBackend] = Some(m)]
    /\ UNCHANGED <<metrics_redis, lb_last>>
    /\ UpdateTaskUnchanged

\* RedisService.set returns: the key holds the metrics of this call, and
\* `self._metrics_cache[provider_id] = metrics`
update_set(i) ==
    /\ tasks[i].pc = "redis_set"
    /\ LET m == tasks[i].metrics
       IN /\ metrics_redis' = [metrics_redis EXCEPT ![UpdatedBackend] =
                Some([current_connections |-> m.current_connections,
                      total_requests |-> m.total_requests,
                      successful_requests |-> m.successful_requests,
                      failed_requests |-> m.failed_requests,
                      avg_latency_ms |-> m.avg_latency_ms,
                      is_healthy |-> m.is_healthy,
                      expire_at |-> now + MetricsTtl])]
          /\ metrics_cache' = [metrics_cache EXCEPT ![UpdatedBackend] = Some(m)]
          /\ tasks' = [tasks EXCEPT ![i] =
                [pc |-> "done", kind |-> "update", success |-> tasks[i].success]]
          /\ lb_last' = [op |-> "update_provider_metrics", error |-> "",
                         selected |-> Some(UpdatedBackend)]
    /\ UpdateTaskUnchanged

NextUpdates ==
    \/ \E i \in TaskIds, success \in BOOLEAN : update_call(i, success)
    \/ \E i \in TaskIds : update_select(i)
    \/ \E i \in TaskIds : update_get(i)
    \/ \E i \in TaskIds : update_set(i)

SpecUpdates == Init /\ [][NextUpdates]_vars

\* the strategies that advance _round_robin_index
CounterStrategies == {"round_robin", "weighted_round_robin"}

\* the provider_ids the concurrent select_provider calls are given
BalanceCandidates == <<1, 2>>

\* select_provider(provider_ids, strategy) is called
balance_call(i, strategy) ==
    /\ tasks[i].pc = "idle"
    /\ tasks' = [tasks EXCEPT ![i] =
          [pc |-> "fetch", kind |-> "balance", strategy |-> strategy,
           seen |-> lb_round_robin_index, remaining |-> BalanceCandidates,
           fetched |-> <<>>]]
    /\ UNCHANGED <<metrics_cache, lb_round_robin_index, lb_last>>
    /\ BalanceTaskUnchanged

\* one `await self.metrics_collector.get_provider_metrics(provider_id)`
\* returns; after the last one the filter and the strategy run to the return
balance_fetch(i) ==
    /\ tasks[i].pc = "fetch"
    /\ LET t == tasks[i]
           p == Head(t.remaining)
       IN \E m \in {GetProviderMetrics(p, now, FALSE)} :
          /\ metrics_cache' = [metrics_cache EXCEPT ![p] = Some(m)]
          /\ IF Tail(t.remaining) # <<>>
             THEN /\ tasks' = [tasks EXCEPT ![i] =
                        [t EXCEPT !.remaining = Tail(@), !.fetched = Append(@, m)]]
                  /\ UNCHANGED <<lb_round_robin_index, lb_last>>
             ELSE \E fetched \in {Append(t.fetched, m)} :
                  \E all_metrics \in {IF Len(HealthyOnly(fetched)) = 0 THEN fetched
                                       ELSE HealthyOnly(fetched)} :
                  \E used \in {CounterRead(t, lb_round_robin_index)} :
                  LET pick == StrategyPick(t.strategy, all_metrics, used, None)
                  IN /\ tasks' = [tasks EXCEPT ![i] =
                           [pc |-> "done", kind |-> "balance",
                            strategy |-> t.strategy, seen |-> t.seen,
                            used |-> used, pick |-> pick.provider_id]]
                     /\ lb_round_robin_index' = lb_round_robin_index + 1
                     /\ lb_last' = [op |-> "select_provider", error |-> "",
                                    selected |-> Some(pick.provider_id),
                                    provider_ids |-> BalanceCandidates,
                                    exclude_unhealthy |-> TRUE]
    /\ BalanceTaskUnchanged


\* (preferred_model, preferred_provider) pairs a caller passes
Preferences == {<<None, None>>, <<Some("gpt-4"), None>>, <<Some("gpt-4"), Some(1)>>}

NextRoute ==
    \/ \E content \in Contents, pref \in Preferences :
          route(content, pref[1], pref[2])
    \/ \E value \in BOOLEAN : Executed < RouteMaxToggles /\ toggle(value, TRUE, None)

SpecRoute == InitRoute /\ [][NextRoute]_vars

\* provider_models tables the weighted selection is run against: three
\* models on two providers, every weight at least 1 (schemas/provider.py)
Weights == {1, 2, 3}

\* <<model 1 active, model 3 active, provider 1 active, provider 2 active,
\*   model 2 active>>
Availability ==
    {<<TRUE, TRUE, TRUE, TRUE, TRUE>>, <<FALSE, TRUE, TRUE, TRUE, TRUE>>,
     <<TRUE, TRUE, TRUE, FALSE, TRUE>>, <<TRUE, TRUE, FALSE, TRUE, TRUE>>,
     <<FALSE, FALSE, TRUE, FALSE, TRUE>>, <<TRUE, TRUE, FALSE, FALSE, TRUE>>,
     <<FALSE, FALSE, TRUE, TRUE, FALSE>>}

InitWeighted ==
    /\ InitOther
    /\ rules_db = <<>>
    /\ loaded_rules = <<>>
    /\ round_robin_index = 0
    /\ route_last = NoDecision("", "")
    /\ picks = <<>>
    /\ \E a \in Availability :
          /\ providers_db = <<[id |-> 1, is_active |-> a[3]], [id |-> 2, is_active |-> a[4]]>>
          /\ \E w1 \in Weights, w2 \in Weights, w3 \in Weights,
                p1 \in Priorities, p2 \in Priorities, p3 \in Priorities :
                models_db = <<Model("gpt-4", 1, p1, w1, a[1]),
                              Model("claude-3", 2, p2, w2, a[5]),
                              Model("gpt-3.5-turbo", 1, p3, w3, a[2])>>

NextWeighted ==
    \/ weighted_round_robin_routing
    \/ route("hi", None, None)

SpecWeighted == InitWeighted /\ [][NextWeighted]_vars

\* provider_models rows the concurrent selections run against: two models
\* of the highest priority with weights of their own, one below them
InitPicks ==
    /\ InitOther
    /\ rules_db = <<>>
    /\ loaded_rules = <<>>
    /\ round_robin_index = 0
    /\ route_last = NoDecision("", "")
    /\ picks = <<>>
    /\ providers_db = <<[id |-> 1, is_active |-> TRUE], [id |-> 2, is_active |-> TRUE]>>
    /\ \E w1 \in Weights, w2 \in Weights :
          models_db = <<Model("gpt-4", 1, 10, w1, TRUE),
                        Model("claude-3", 2, 10, w2, TRUE),
                        Model("gpt-3.5-turbo", 1, 5, 3, TRUE)>>

NextPicks ==
    \/ \E i \in TaskIds : routing_call(i)
    \/ \E i \in TaskIds : routing_providers(i)
    \/ \E i \in TaskIds : routing_models(i)
    \/ \E i \in TaskIds, strategy \in CounterStrategies : balance_call(i, strategy)
    \/ \E i \in TaskIds : balance_fetch(i)

SpecPicks == InitPicks /\ [][NextPicks]_vars

\* ------------------------------------------------- RoutingAgent.execute
\* the providers row with Provider.id == decision.provider_id, <<>> if none
\* (a decision without provider compares the key with NULL)
FindProvider(pid) ==
    IF pid = None THEN <<>>
    ELSE SelectSeq(providers_db, LAMBDA r : r.id = pid[1])

\* 2 ** attempt
RECURSIVE Pow2(_)
Pow2(n) == IF n = 0 THEN 1 ELSE 2 * Pow2(n - 1)

\* `if attempt < max_retries - 1: await asyncio.sleep(2 ** attempt)`
BackoffAfter(attempt, max_retries, sleeps) ==
    IF attempt < max_retries - 1 THEN Append(sleeps, Pow2(attempt)) ELSE sleeps

\* RoutingAgent._execute_with_retry: `for attempt in range(max_retries)`.
\* The backend answers attempt number first_ok (counted from 1) and fails
\* the attempts before it; first_ok = 0 is a backend that never answers.
\* `raise last_error` with last_error still None raises TypeError.
RECURSIVE RetryLoop(_, _, _, _)
RetryLoop(attempt, max_retries, first_ok, acc) ==
    IF attempt >= max_retries
    THEN [acc EXCEPT !.raised = IF acc.last_error = None
                                THEN "TypeError" ELSE "ProviderError"]
    ELSE IF attempt + 1 = first_ok
    THEN [acc EXCEPT !.calls = @ + 1, !.response = TRUE]
    ELSE RetryLoop(attempt + 1, max_retries, first_ok,
                   [acc EXCEPT !.calls = @ + 1,
                               !.last_error = Some(attempt),
                               !.sleeps = BackoffAfter(attempt, max_retries, @)])

ExecuteWithRetry(max_retries, first_ok) ==
    RetryLoop(0, max_retries, first_ok,
              [calls |-> 0, sleeps |-> <<>>, last_error |-> None,
               response |-> FALSE, raised |-> ""])

\* RoutingDecision row written by _record_decision
DecisionRow(decision, provider, error) ==
    [provider_id |-> provider.id, model_id |-> decision.model_id,
     routing_method |-> decision.method, success |-> (error = None)]

\* RoutingAgent.execute(request, decision): its effect on the audit rows
\* and what it hands back
ExecuteBody(decision, first_ok) ==
    LET found == FindProvider(decision.provider_id) IN
    IF found = <<>>
    THEN /\ exec_last' = [outcome |-> "result", success |-> FALSE,
                          provider_id |-> decision.provider_id,
                          model_id |-> decision.model_id,
                          error_message |-> "Provider not found",
                          calls |-> 0, sleeps |-> <<>>, recorded |-> 0,
                          backends |-> {}]
         /\ decisions_db' = decisions_db
    ELSE LET provider == found[1] IN
         IF provider.id \notin providers_cache
         THEN /\ exec_last' = [outcome |-> "result", success |-> FALSE,
                               provider_id |-> decision.provider_id,
                               model_id |-> decision.model_id,
                               error_message |-> "Provider not initialized",
                               calls |-> 0, sleeps |-> <<>>, recorded |-> 0,
                          backends |-> {}]
              /\ decisions_db' = decisions_db
         ELSE LET r == ExecuteWithRetry(provider.max_retries, first_ok) IN
              IF r.response
              THEN /\ Len(decisions_db) < MaxRecords
                   /\ decisions_db' = Append(decisions_db, DecisionRow(decision, provider, None))
                   /\ exec_last' = [outcome |-> "result", success |-> TRUE,
                                    provider_id |-> Some(provider.id),
                                    model_id |-> decision.model_id,
                                    error_message |-> "",
                                    calls |-> r.calls, sleeps |-> r.sleeps, recorded |-> 1,
                                    backends |-> IF r.calls > 0 THEN {provider.id} ELSE {}]
              ELSE IF r.raised = "ProviderError"
              THEN /\ Len(decisions_db) < MaxRecords
                   /\ decisions_db' = Append(decisions_db,
                                          DecisionRow(decision, provider, Some("ProviderError")))
                   /\ exec_last' = [outcome |-> "result", success |-> FALSE,
                                    provider_id |-> Some(provider.id),
                                    model_id |-> decision.model_id,
                                    error_message |-> "ProviderError",
                                    calls |-> r.calls, sleeps |-> r.sleeps, recorded |-> 1,
                                    backends |-> IF r.calls > 0 THEN {provider.id} ELSE {}]
              ELSE \* not a ProviderError: leaves execute as an exception
                   /\ decisions_db' = decisions_db
                   /\ exec_last' = [outcome |-> "raise", success |-> FALSE,
                                    provider_id |-> Some(provider.id),
                                    model_id |-> decision.model_id,
                                    error_message |-> r.raised,
                                    calls |-> r.calls, sleeps |-> r.sleeps, recorded |-> 0,
                                    backends |-> IF r.calls > 0 THEN {provider.id} ELSE {}]

execute(decision, first_ok) ==
    /\ ExecuteBody(decision, first_ok)
    /\ UNCHANGED <<now, switchVars, circuitVars, routeVars, providers_cache, http_last,
                   lbVars, procVars>>

\* decisions handed to execute: a fixed decision for each provider id (3 has
\* no row) and a rule decision that names a model only
ExecDecisions ==
    {[content |-> "hi", error |-> "", provider_id |-> Some(i), model_id |-> "gpt-4",
      rule_id |-> None, method |-> "fixed"] : i \in {1, 2, 3}}
    \cup {[content |-> "hi", error |-> "", provider_id |-> None, model_id |-> "gpt-4",
           rule_id |-> Some(1), method |-> "rule_based"]}

\* RoutingAgent.initialize / _refresh_providers: an instance is cached for
\* every ACTIVE provider whose construction does not raise
initialize ==
    /\ \E ok \in SUBSET ActiveProviderIds : providers_cache' = providers_cache \cup ok
    /\ UNCHANGED <<now, switchVars, circuitVars, routeVars, decisions_db, exec_last,
                   http_last, lbVars, procVars>>

\* max_retries of the second provider: the column default
DefaultMaxRetries == 3

\* providers rows with max_retries anywhere in the range the schema allows
InitExecute ==
    /\ InitOther
    /\ rules_db = <<>>
    /\ models_db = <<>>
    /\ loaded_rules = <<>>
    /\ round_robin_index = 0
    /\ route_last = NoDecision("", "")
    /\ picks = <<>>
    /\ \E mr \in 0..MaxRetriesLimit :
          providers_db = <<[id |-> 1, is_active |-> TRUE, max_retries |-> mr],
                           [id |-> 2, is_active |-> TRUE, max_retries |-> DefaultMaxRetries]>>

NextExecute ==
    \/ initialize
    \/ \E decision \in ExecDecisions, first_ok \in 0..MaxRetriesLimit :
          execute(decision, first_ok)

SpecExecute == InitExecute /\ [][NextExecute]_vars

\* the routing agent in front of a switch that is toggled, with and without
\* force, while requests arrive: one rule table, the clock around one delay
GateRules ==
    <<Rule(1, "regex", "code|function|class", Some(10), Some(10000), "use_model", "gpt-4", 10, TRUE),
      Rule(2, "complexity", "", Some(5), None, "use_provider", "2", 20, TRUE)>>

GateTimePoints == {0, 10, 20}

GateTick ==
    /\ \E t \in GateTimePoints : t > now /\ now' = t
    /\ UNCHANGED <<switchVars, circuitVars, routeVars, execVars>>

InitGate ==
    /\ InitOther
    /\ rules_db = GateRules
    /\ providers_db = <<[id |-> 1, is_active |-> TRUE], [id |-> 2, is_active |-> TRUE]>>
    /\ models_db = ModelConfig
    /\ loaded_rules = <<>>
    /\ round_robin_index = 0
    /\ route_last = NoDecision("", "")
    /\ picks = <<>>

NextGate ==
    \/ \E content \in Contents, pref \in Preferences :
          route(content, pref[1], pref[2])
    \/ \E value \in BOOLEAN, force \in BOOLEAN : toggle(value, force, None)
    \/ GateTick

SpecGate == InitGate /\ [][NextGate]_vars

\* chat_completions(request): route with the requested model as the only
\* preference, execute the decision, 500 unless the result is a success.
\* An exception of route or execute ends in the `except Exception` handler.
chat_completions(content, model, first_ok) ==
    /\ RouteBody(content, Some(model), None)
    /\ IF route_last'.error # ""
       THEN /\ http_last' = 500
            /\ UNCHANGED <<decisions_db, exec_last>>
       ELSE /\ ExecuteBody(route_last', first_ok)
            /\ http_last' = IF exec_last'.outcome = "result" /\ exec_last'.success
                            THEN 200 ELSE 500
    /\ UNCHANGED <<providers_cache, lbVars, procVars>>

\* the chat endpoint over two providers, with the health checker probing
\* provider 1 and failures being reported to the failover manager
InitChat ==
    /\ InitOther
    /\ rules_db = GateRules
    /\ providers_db = <<[id |-> 1, is_active |-> TRUE, max_retries |-> 2],
                        [id |-> 2, is_active |-> TRUE, max_retries |-> DefaultMaxRetries]>>
    /\ models_db = ModelConfig
    /\ loaded_rules = <<>>
    /\ round_robin_index = 0
    /\ route_last = NoDecision("", "")
    /\ picks = <<>>

NextChat ==
    \/ initialize
    \/ \E content \in Contents, first_ok \in 0..DefaultMaxRetries :
          chat_completions(content, "gpt-4", first_ok)
    \/ \E p \in Providers : update_health_status(p, FALSE)
    \/ \E p \in Providers : record_failure(p)
    \/ \E p \in Providers : should_allow_request(p)

SpecChat == InitChat /\ [][NextChat]_vars

\* ------------------------------------------- store faults during a switch
\* The awaited store calls of a switch, in program order: redis.set(COOLDOWN),
\* redis.delete(PENDING), redis.set(ENABLED), then _record_history's
\* execute_insert followed by redis.lpush. Call number k raises; neither
\* toggle nor _process_pending_switch catches it.
SwitchWrites == <<"set_cooldown", "delete_pending", "set_enabled", "lpush_history">>

FaultyWrites == 1..Len(SwitchWrites)

\* the store after the calls before call k have been made
RedisBeforeFault(r, new_enabled, t, k) ==
    [pending  |-> IF k > 2 THEN None ELSE r.pending,
     cooldown |-> IF k > 1
                  THEN Some([value |-> t + CooldownSeconds, expire_at |-> t + CooldownSeconds])
                  ELSE r.cooldown,
     enabled  |-> IF k > 3 THEN Some(BoolStr(new_enabled)) ELSE r.enabled,
     history  |-> r.history]

\* execute_insert has run when lpush is reached
DbBeforeFault(d, entry, k) == IF k > 3 THEN Append(d, entry) ELSE d

\* toggle(value, force=True) whose store call k raises
toggle_fault(value, k) ==
    /\ Executed < MaxSwitches
    /\ sw' = ImmediateMem(sw, value, now)
    /\ redis' = RedisBeforeFault(redis, value, now, k)
    /\ db_history' = DbBeforeFault(db_history,
                                   HistoryEntry(sw.enabled, value, "manual", "admin", now), k)
    /\ last' = [op |-> "toggle", error |-> SwitchWrites[k], info |-> NoInfo,
                ret |-> sw.enabled]
    /\ lastToggle' = [kind |-> "immediate", force |-> TRUE, value |-> value,
                      at |-> now, delay |-> 0, pre |-> sw]
    /\ UNCHANGED <<now, circuitVars, routeVars, execVars>>

\* get_status() reaching a due pending switch whose store call k raises
status_fault(k) ==
    /\ PendingDue(sw, now)
    /\ Executed < MaxSwitches
    /\ sw' = ProcessPendingMem(sw, now)
    /\ redis' = RedisBeforeFault(redis, sw.pending_value, now, k)
    /\ db_history' = DbBeforeFault(db_history,
                                   HistoryEntry(sw.enabled, sw.pending_value,
                                                "Scheduled switch", "system", now), k)
    /\ last' = [op |-> "get_status", error |-> SwitchWrites[k], info |-> NoInfo,
                ret |-> sw.enabled]
    /\ UNCHANGED <<now, lastToggle, circuitVars, routeVars, execVars>>

FaultTimePoints == {0, 10, 20, 400}

FaultTick ==
    /\ \E t \in FaultTimePoints : t > now /\ now' = t
    /\ UNCHANGED <<switchVars, circuitVars, routeVars, execVars>>

NextStoreFault ==
    \/ get_status
    \/ \E value \in BOOLEAN, force \in BOOLEAN : toggle(value, force, None)
    \/ \E value \in BOOLEAN, k \in FaultyWrites : toggle_fault(value, k)
    \/ \E k \in FaultyWrites : status_fault(k)
    \/ FaultTick

SpecStoreFault == Init /\ [][NextStoreFault]_vars

\* ------------------------------------------ two processes on one store
\* A second gateway process (its own GatewayOrchestrator singleton) on the
\* same shared store and database. `peer` holds its in-memory fields: those
\* of __init__ followed by initialize() against the empty store.
PeerUnchanged ==
    UNCHANGED <<now, sw, lastToggle, circuitVars, routeVars, providers_cache,
                decisions_db, exec_last, http_last, lbVars, monitor, tasks>>

\* get_status() in the second process: _process_pending_switch on its own
\* fields, then the SwitchInfo of its own fields; no key of the store is read
peer_get_status ==
    /\ PendingDue(peer, now) => Executed < MaxSwitches
    /\ peer' = ProcessPendingMem(peer, now)
    /\ redis' = ProcessPendingRedis(peer, redis, now)
    /\ db_history' = ProcessPendingDb(peer, db_history, now)
    /\ last' = [op |-> "peer_get_status", error |-> "",
                info |-> SwitchInfo(peer', now), ret |-> peer'.enabled]
    /\ PeerUnchanged

\* the second process is started again: __init__, then initialize()
peer_initialize ==
    LET s1 == LoadSnapshot(redis, now)
    IN /\ PendingDue(s1, now) => Executed < MaxSwitches
       /\ peer' = ProcessPendingMem(s1, now)
       /\ redis' = ProcessPendingRedis(s1, redis, now)
       /\ db_history' = ProcessPendingDb(s1, db_history, now)
       /\ last' = [op |-> "peer_initialize", error |-> "", info |-> NoInfo,
                   ret |-> peer'.enabled]
       /\ PeerUnchanged

PeerTimePoints == {0, 10, 20}

PeerTick ==
    /\ \E t \in PeerTimePoints : t > now /\ now' = t
    /\ UNCHANGED <<switchVars, circuitVars, routeVars, execVars>>

NextPeers ==
    \/ get_status
    \/ \E value \in BOOLEAN, force \in BOOLEAN : toggle(value, force, None)
    \/ peer_get_status
    \/ peer_initialize
    \/ PeerTick

SpecPeers == Init /\ [][NextPeers]_vars

C2_ForceToggle ==
    /\ [][\A value \in BOOLEAN, delay \in Delays :
            toggle(value, TRUE, delay)
            => (/\ last'.error = ""
                /\ last'.info.enabled = value
                /\ last'.info.pending = FALSE
                /\ sw'.enabled = value
                /\ sw'.pending_switch = FALSE
                /\ sw'.scheduled_at = None
                /\ sw'.cooldown_until = Some(now + CooldownSeconds))]_vars
    /\ [](lastToggle.force
            => (/\ sw.enabled = lastToggle.value
                /\ sw.pending_switch = FALSE
                /\ sw.scheduled_at = None
                /\ sw.cooldown_until = Some(lastToggle.at + CooldownSeconds)
                /\ (last.op \in {"get_status", "is_enabled"}
                      => last.ret = lastToggle.value)))

\* a forced toggle overrode a pending switch to the opposite value, and a
\* status read made after that switch's scheduled time still reports the
\* forced value
C2_Witness ==
    /\ lastToggle.force
    /\ lastToggle.pre.pending_switch
    /\ lastToggle.pre.pending_value # lastToggle.value
    /\ now >= lastToggle.pre.scheduled_at[1]
    /\ last.op = "get_status"
    /\ last.info.enabled = lastToggle.value

\* C3: after a non-forced toggle(v, delay=d), d > 0, accepted at t0 and
\* followed by no other toggle, every status read before t0+d reports the
\* old enabled value with pending = true, pendingValue = v and
\* scheduledAt = t0+d, and every status read at or after t0+d reports
\* enabled = v with pending = false.
C3_DelayedResolution ==
    [][(/\ lastToggle.kind = "scheduled"
        /\ (get_status \/ is_enabled))
       => LET due == lastToggle.at + lastToggle.delay IN
          IF now < due
          THEN /\ last'.ret = lastToggle.pre.enabled
               /\ sw'.pending_switch = TRUE
               /\ last'.op = "get_status"
                    => (/\ last'.info.enabled = lastToggle.pre.enabled
                        /\ last'.info.pending = TRUE
                        /\ last'.info.pending_value = Some(lastToggle.value)
                        /\ last'.info.scheduled_at = Some(due))
          ELSE /\ last'.ret = lastToggle.value
               /\ sw'.pending_switch = FALSE
               /\ last'.op = "get_status"
                    => (/\ last'.info.enabled = lastToggle.value
                        /\ last'.info.pending = FALSE)]_vars

\* a status read made exactly at t0+d applied the scheduled switch and
\* changed the enabled value
C3_Witness ==
    /\ lastToggle.kind = "scheduled"
    /\ lastToggle.value # lastToggle.pre.enabled
    /\ now = lastToggle.at + lastToggle.delay
    /\ last.op = "get_status"
    /\ last.info.enabled = lastToggle.value
    /\ last.info.pending = FALSE

\* C4: with failureThreshold = N, starting from a closed circuit, exactly N
\* consecutive recordFailure calls for a backend (no success in between) move
\* its circuit from closed to open and stamp stateChangedAt; after fewer than
\* N such calls the circuit is still closed.
C4_ThresholdOpens ==
    [][\A p \in Providers :
         (cb_states[p] = "closed" /\ record_failure(p))
         => IF fail_run[p] + 1 = failure_threshold
            THEN cb_states'[p] = "open" /\ state_change_times'[p] = Some(now)
            ELSE fail_run[p] + 1 < failure_threshold => cb_states'[p] = "closed"]_vars

\* C5: while the circuit is open with stateChangedAt = t, every
\* shouldAllowRequest call made before timeoutSeconds has elapsed since t
\* returns false and leaves the circuit open, failures (and any other call)
\* recorded meanwhile leave the circuit open with stateChangedAt = t, and a
\* shouldAllowRequest call made after timeoutSeconds has elapsed returns
\* true and moves the circuit to half_open.
C5_OpenTimeout ==
    [][\A p \in Providers :
         cb_states[p] = "open" =>
           /\ should_allow_request(p) =>
                /\ now - state_change_times[p][1] < timeout_seconds
                     => (/\ cb_last'.allowed = FALSE
                         /\ cb_states'[p] = "open"
                         /\ state_change_times'[p] = state_change_times[p])
                /\ now - state_change_times[p][1] > timeout_seconds
                     => (/\ cb_last'.allowed = TRUE
                         /\ cb_states'[p] = "half_open")
           /\ (\/ record_failure(p)
               \/ record_success(p)
               \/ \E h \in BOOLEAN : update_health_status(p, h))
                => (/\ cb_states'[p] = "open"
                    /\ state_change_times'[p] = state_change_times[p])]_vars

\* a circuit that opened, had a failure recorded while open, and was moved
\* to half_open by a shouldAllowRequest call made after the timeout
C5_Witness ==
    \E p \in Providers :
        /\ cb_states[p] = "half_open"
        /\ cb_last.op = "should_allow_request"
        /\ cb_last.allowed = TRUE
        /\ state_change_times[p] = Some(now)
        /\ Len(failure_history[p]) > failure_threshold - 1

\* C6: while the circuit is half_open, successThreshold consecutive
\* recordSuccess calls for the backend (no failure in between) move it to
\* closed, and fewer than successThreshold recorded successes leave it
\* half_open.
C6_HalfOpenCloses ==
    [][\A p \in Providers :
         (cb_states[p] = "half_open" /\ record_success(p))
         => IF succ_run[p] + 1 >= success_threshold
            THEN cb_states'[p] = "closed"
            ELSE cb_states'[p] = "half_open"]_vars

\* C7: while the circuit is half_open, a single recordFailure call moves it
\* back to open at once, whatever was recorded before.
C7_HalfOpenReopens ==
    [][\A p \in Providers :
         (cb_states[p] = "half_open" /\ record_failure(p))
         => cb_states'[p] = "open"]_vars

\* C8: the circuit state changes only along closed->open, open->half_open,
\* half_open->closed and half_open->open, and stateChangedAt is stamped (with
\* the time of the call) exactly when the state changes.
AllowedTransitions ==
    {<<"closed", "open">>, <<"open", "half_open">>,
     <<"half_open", "closed">>, <<"half_open", "open">>}

C8_Transitions ==
    [][\A p \in Providers :
         IF cb_states'[p] # cb_states[p]
         THEN /\ <<cb_states[p], cb_states'[p]>> \in AllowedTransitions
              /\ state_change_times'[p] = Some(now)
         ELSE state_change_times'[p] = state_change_times[p]]_vars

\* a circuit that is closed again after closed->open->half_open->closed,
\* later than the time it was stamped
C8_Witness ==
    \E p \in Providers :
        /\ cb_states[p] = "closed"
        /\ state_change_times[p] # None
        /\ now > state_change_times[p][1]
        /\ cb_last.op = "record_failure"

\* C9: when the switch is enabled and several active rules match the request,
\* route returns the rule_based decision of the matching rule with the
\* highest priority, whatever order the rules are read in; among matching
\* rules of equal priority the one read first is taken.
C9_RulePriority ==
    [][\A content \in Contents, pref \in Preferences :
         (/\ ~(pref[1] # None /\ pref[2] # None)
          /\ sw'.enabled
          /\ route_last'.content = content
          /\ route(content, pref[1], pref[2]))
         => LET M == {i \in 1..Len(rules_db) :
                        rules_db[i].is_active /\ EvaluateRule(content, rules_db[i])}
            IN M # {} =>
               LET best == CHOOSE i \in M : \A j \in M :
                              \/ rules_db[j].priority < rules_db[i].priority
                              \/ (rules_db[j].priority = rules_db[i].priority /\ i <= j)
               IN /\ route_last'.method = "rule_based"
                  /\ route_last'.rule_id = Some(rules_db[best].id)
                  /\ rules_db[best].action_type = "use_model"
                       => route_last'.model_id = rules_db[best].action_value]_vars

\* a rule_based decision for a rule that was read after a matching rule of
\* lower priority
C9_Witness ==
    /\ route_last.method = "rule_based"
    /\ sw.enabled
    /\ \E i, j \in 1..Len(rules_db) :
         /\ i < j
         /\ rules_db[i].is_active /\ EvaluateRule(route_last.content, rules_db[i])
         /\ rules_db[j].is_active /\ EvaluateRule(route_last.content, rules_db[j])
         /\ rules_db[i].priority < rules_db[j].priority
         /\ route_last.rule_id = Some(rules_db[j].id)

\* C10: each route call that returns a rule_based decision for rule r raises
\* the hitCount of r, as read from the rule configuration, by exactly 1 and
\* leaves the hitCount of every other rule unchanged.
C10_HitCount ==
    [][\A content \in Contents, pref \in Preferences :
         (/\ route_last'.method = "rule_based"
          /\ route_last'.content = content
          /\ route(content, pref[1], pref[2]))
         => \A i \in 1..Len(rules_db) :
              rules_db'[i].hit_count =
                 rules_db[i].hit_count
                   + (IF Some(rules_db[i].id) = route_last'.rule_id THEN 1 ELSE 0)]_vars

\* C11: for a fixed set of eligible candidates with positive weights and
\* total weight W, the k-th weighted selection returns the first candidate,
\* in the order the candidates are walked, whose cumulative weight exceeds
\* (k-1) mod W, and any W consecutive selections return candidate i exactly
\* weight(i) times.
C11_WeightedShare ==
    LET list == ModelList IN
    Len(list) > 0 =>
      LET c == CandidateModels(list)
          W == SumWeights(c, Len(c))
          first(x) == CHOOSE k \in 1..Len(c) :
                         /\ x < SumWeights(c, k)
                         /\ \A m \in 1..(k - 1) : x >= SumWeights(c, m)
      IN /\ \A j \in 1..Len(picks) : picks[j] = PickOf(c[first((j - 1) % W)])
         /\ \A s \in 1..(Len(picks) - W + 1) : \A i \in 1..Len(c) :
               Cardinality({j \in s..(s + W - 1) : picks[j] = PickOf(c[i])}) = c[i].weight

\* more than one full cycle over three candidates of unequal weights
C11_Witness ==
    LET list == ModelList IN
    /\ Len(list) > 0
    /\ LET c == CandidateModels(list)
       IN /\ Len(c) = 3
          /\ c[1].weight > c[3].weight
          /\ Len(picks) > SumWeights(c, Len(c)) + 1

\* C12: every decision of the weighted selection names a model that is
\* active, belongs to an active provider and has the highest priority among
\* all such models.
C12_TopPriorityOnly ==
    route_last.method = "weighted_round_robin" =>
      \E i \in 1..Len(models_db) :
        /\ models_db[i].model_id = route_last.model_id
        /\ Some(models_db[i].provider_id) = route_last.provider_id
        /\ models_db[i].is_active
        /\ \E q \in 1..Len(providers_db) :
              providers_db[q].id = models_db[i].provider_id /\ providers_db[q].is_active
        /\ \A j \in 1..Len(models_db) :
              (/\ models_db[j].is_active
               /\ \E q \in 1..Len(providers_db) :
                     providers_db[q].id = models_db[j].provider_id /\ providers_db[q].is_active)
              => models_db[j].priority <= models_db[i].priority

\* a decision taken while an eligible model of lower priority and larger
\* weight exists, after the counter has advanced
C12_Witness ==
    /\ route_last.method = "weighted_round_robin"
    /\ round_robin_index > 2
    /\ \E i, j \in 1..Len(ModelList) :
          /\ ModelList[i].model_id = route_last.model_id
          /\ ModelList[j].priority < ModelList[i].priority
          /\ ModelList[j].weight > ModelList[i].weight

\* C19: when route falls through to the weighted selection and no active
\* model is attached to an active provider, route fails with 'No active
\* models available', returns no decision and leaves the round-robin
\* counter unchanged.
C19_NoActiveModels ==
    [][\A content \in Contents :
         (/\ ~\E i \in 1..Len(models_db), q \in 1..Len(providers_db) :
                 /\ models_db[i].is_active
                 /\ providers_db[q].is_active
                 /\ providers_db[q].id = models_db[i].provider_id
          /\ route(content, None, None))
         => (/\ route_last'.error = "No active models available"
             /\ route_last'.method = ""
             /\ route_last'.provider_id = None
             /\ route_last'.model_id = ""
             /\ round_robin_index' = round_robin_index
             /\ picks' = picks)]_vars

\* a failed route call over a table whose only active models belong to an
\* inactive provider
C19_Witness ==
    /\ route_last.error = "No active models available"
    /\ route_last.content = "hi"
    /\ \E i \in 1..Len(models_db) : models_db[i].is_active
    /\ last.op = "get_status"

\* C13: when both a preferred provider and a preferred model are supplied,
\* route returns the decision with exactly that provider and model and
\* method 'fixed', whatever the switch, the rules and the candidates are, and
\* leaves the switch (a pending switch that is already due included), every
\* rule's hitCount and the round-robin counter unchanged.
C13_FixedBypass ==
    [][\A content \in Contents, pref \in Preferences :
         (/\ pref[1] # None /\ pref[2] # None
          /\ route(content, pref[1], pref[2]))
         => (/\ route_last'.method = "fixed"
             /\ route_last'.provider_id = pref[2]
             /\ route_last'.model_id = pref[1][1]
             /\ route_last'.rule_id = None
             /\ UNCHANGED <<sw, redis, db_history, rules_db, loaded_rules,
                            round_robin_index, picks>>)]_vars

\* a fixed decision returned while routing is enabled, a rule matches the
\* request and a switch to disabled is pending and already due
C13_Witness ==
    /\ route_last.method = "fixed"
    /\ sw.enabled
    /\ sw.pending_switch /\ ~sw.pending_value
    /\ now >= sw.scheduled_at[1]
    /\ \E i \in 1..Len(rules_db) :
          rules_db[i].is_active /\ EvaluateRule(route_last.content, rules_db[i])

\* C14: when route is called without both preferences, rules are evaluated
\* if and only if the switch is enabled once a pending switch whose
\* scheduled time has passed has been applied; when it is disabled no rule's
\* hitCount changes and the decision comes from the weighted selection even
\* if an active rule matches.
C14_SwitchGatesRules ==
    [][\A content \in Contents, pref \in Preferences :
         (/\ ~(pref[1] # None /\ pref[2] # None)
          /\ route_last'.content = content
          /\ route(content, pref[1], pref[2]))
         => LET due == /\ sw.pending_switch
                       /\ sw.scheduled_at # None
                       /\ now >= sw.scheduled_at[1]
                on == IF due THEN sw.pending_value ELSE sw.enabled
                M == {i \in 1..Len(rules_db) :
                        rules_db[i].is_active /\ EvaluateRule(content, rules_db[i])}
            IN /\ sw'.enabled = on
               /\ (on /\ M # {}) => route_last'.method = "rule_based"
               /\ (on /\ M = {}) => route_last'.method = "weighted_round_robin"
               /\ ~on => (/\ route_last'.method = "weighted_round_robin"
                          /\ loaded_rules' = loaded_rules
                          /\ rules_db' = rules_db)]_vars

\* a weighted decision for a request an active rule matches, returned by the
\* route call that itself applied the due switch to disabled
C14_Witness ==
    /\ route_last.method = "weighted_round_robin"
    /\ ~sw.enabled
    /\ \E i \in 1..Len(rules_db) :
          rules_db[i].is_active /\ EvaluateRule(route_last.content, rules_db[i])
    /\ last.op = "get_status"
    /\ lastToggle.kind = "scheduled"
    /\ lastToggle.pre.enabled
    /\ Len(db_history) > 0
    /\ db_history[Len(db_history)].reason = "Scheduled switch"
    /\ sw.cooldown_until = Some(now + CooldownSeconds)

\* C15: for every configured maxRetries (0 to 10) the retry loop of execute
\* makes at most maxRetries backend calls, returns the first successful
\* response without calling the backend again, waits 2^attempt seconds after
\* failed attempt number attempt (from 0) except after the last one, and
\* when all attempts fail execute returns a RouteResult with success = false
\* carrying the backend error.
C15_RetryLoop ==
    [][\A decision \in ExecDecisions, first_ok \in 0..MaxRetriesLimit :
         (/\ decision.provider_id = Some(1)
          /\ 1 \in providers_cache
          /\ execute(decision, first_ok))
         => LET n == providers_db[1].max_retries
                answered == first_ok >= 1 /\ first_ok <= n
                failed == IF answered THEN first_ok - 1 ELSE n
            IN /\ exec_last'.calls <= n
               /\ exec_last'.outcome = "result"
               /\ exec_last'.success = answered
               /\ answered => exec_last'.calls = first_ok
               /\ ~answered => (/\ exec_last'.calls = n
                                /\ exec_last'.error_message = "ProviderError")
               /\ Len(exec_last'.sleeps) = (IF answered THEN failed
                                            ELSE IF n = 0 THEN 0 ELSE n - 1)
               /\ \A a \in 1..Len(exec_last'.sleeps) :
                     exec_last'.sleeps[a] = Pow2(a - 1)]_vars

\* C16: every call to execute, whether it ends in success, in a backend
\* error after the retries, in 'Provider not found' or in 'Provider not
\* initialized', appends exactly one record to the routing_decisions rows,
\* and the record's success flag equals the success flag of the RouteResult.
C16_AlwaysRecorded ==
    [][\A decision \in ExecDecisions, first_ok \in 0..MaxRetriesLimit :
         execute(decision, first_ok)
         => (/\ Len(decisions_db') = Len(decisions_db) + 1
             /\ decisions_db'[Len(decisions_db')].success = exec_last'.success)]_vars

\* C17: when the backend chosen for a request fails all its retries and
\* another active backend exists, the request is tried on it; a failure
\* reaches the caller only after every backend has been tried.
C17_FailoverBeforeFailure ==
    [][\A content \in Contents, first_ok \in 0..DefaultMaxRetries :
         (/\ chat_completions(content, "gpt-4", first_ok)
          /\ exec_last'.backends # {}
          /\ http_last' = 500)
         => \A q \in 1..Len(providers_db) :
              (providers_db[q].is_active /\ providers_db[q].id \in providers_cache)
              => providers_db[q].id \in exec_last'.backends]_vars

\* C18: execute sends no request to a backend whose circuit is open and
\* whose timeout has not elapsed, and every completed backend call is
\* reported to the failover manager (record_success / record_failure).
C18_BreakerGatesExecution ==
    [][\A content \in Contents, first_ok \in 0..DefaultMaxRetries :
         chat_completions(content, "gpt-4", first_ok)
         => \A p \in exec_last'.backends \cap Providers :
              /\ ~(/\ cb_states[p] = "open"
                   /\ now - state_change_times[p][1] <= timeout_seconds)
              /\ IF exec_last'.success
                 THEN /\ cb_last' = [op |-> "record_success", provider_id |-> p,
                                     allowed |-> TRUE]
                      /\ failure_history'[p] = <<>>
                 ELSE Len(failure_history'[p]) = Len(failure_history[p]) + 1]_vars

\* C20: a toggle(value, force=false, delay=0) accepted outside cooldown
\* executes immediately: on return enabled = value, no switch is pending and
\* cooldownUntil = now + 300; only a non-forced toggle with a positive delay,
\* or with no delay given, leaves a pending switch.
C20_ZeroDelayImmediate ==
    [][\A value \in BOOLEAN, force \in BOOLEAN, delay \in Delays :
         (/\ sw.cooldown_until = None \/ now >= sw.cooldown_until[1] \/ force
          /\ toggle(value, force, delay))
         => IF force \/ delay = Some(0)
            THEN /\ sw'.enabled = value
                 /\ ~sw'.pending_switch
                 /\ sw'.cooldown_until = Some(now + CooldownSeconds)
            ELSE /\ sw'.pending_switch
                 /\ sw'.pending_value = value]_vars

\* C21: a status read at time t that applies a due pending switch sets
\* cooldownUntil = t + 300; every non-forced toggle issued before the
\* cooldown started by such a read ends is rejected with the cooldown error;
\* a toggle that only schedules a delayed switch leaves cooldownUntil as it
\* was.
C21_ResolvedPendingCooldown ==
    /\ [][((get_status \/ is_enabled) /\ PendingDue(sw, now))
            => sw'.cooldown_until = Some(now + CooldownSeconds)]_vars
    /\ [][\A value \in BOOLEAN, delay \in Delays :
            (/\ Len(redis.history) > 0
             /\ redis.history[1].reason = "Scheduled switch"
             /\ now < redis.history[1].timestamp + CooldownSeconds
             /\ toggle(value, FALSE, delay))
            => (last'.error = "Cooldown active" /\ sw' = sw)]_vars
    /\ [][\A value \in BOOLEAN, force \in BOOLEAN, delay \in Delays :
            (toggle(value, force, delay) /\ lastToggle' # lastToggle
               /\ lastToggle'.kind = "scheduled")
            => sw'.cooldown_until = sw.cooldown_until]_vars

\* a status read at time 10 applied a pending switch and a later non-forced
\* toggle, issued before time 310, was rejected
C21_Witness ==
    /\ last.op = "toggle"
    /\ last.error = "Cooldown active"
    /\ Len(redis.history) > 0
    /\ redis.history[1].reason = "Scheduled switch"
    /\ sw.cooldown_until = Some(redis.history[1].timestamp + CooldownSeconds)
    /\ now > redis.history[1].timestamp
    /\ now < sw.cooldown_until[1]

\* C22: in every reachable switch state, and in the state initialize has just
\* loaded from the persisted snapshot, pendingSwitch = true implies that
\* scheduledAt is set; hence every status read made at or after the
\* scheduled time of a pending switch resolves it.
C22_PendingHasSchedule ==
    /\ [](sw.pending_switch => sw.scheduled_at # None)
    /\ [](LoadSnapshot(redis, now).pending_switch
            => LoadSnapshot(redis, now).scheduled_at # None)
    /\ [][(get_status /\ sw.pending_switch /\ now >= sw.scheduled_at[1])
            => (/\ sw'.pending_switch = FALSE
                /\ sw'.enabled = sw.pending_value
                /\ last'.info.pending = FALSE)]_vars

\* a new process has just loaded a pending switch from the store: the
\* switch is pending in memory with the scheduled time the toggle stored
C22_Witness ==
    /\ last.op = "initialize"
    /\ sw.pending_switch
    /\ lastToggle.kind = "scheduled"
    /\ sw.scheduled_at = Some(lastToggle.at + lastToggle.delay)
    /\ now < sw.scheduled_at[1]

\* C25: a restart (a new process, then initialize from the shared store, whose
\* keys expire by their TTLs) leaves the switch behaving as it would have
\* without the restart: the same enabled value, a still-active cooldown still
\* in force, and a scheduled switch that was not yet applied still pending
\* for its scheduled time (or applied, when that time has come).
C25_RestartPreservesSwitch ==
    [][restart
       => LET kept == ProcessPendingMem(sw, now) IN
          /\ sw'.enabled = kept.enabled
          /\ CooldownActive(kept.cooldown_until, now)
                => sw'.cooldown_until = kept.cooldown_until
          /\ sw'.pending_switch = kept.pending_switch
          /\ kept.pending_switch
                => (/\ sw'.pending_value = kept.pending_value
                    /\ sw'.scheduled_at = kept.scheduled_at)]_vars

\* C23: every executed switch (an immediate toggle or a resolved pending
\* switch) puts exactly one new entry at the head of the history log; a
\* toggle that is only scheduled or is rejected puts none; the log is always
\* ordered most-recent-first and never holds more than 100 entries; and
\* get_history(limit) returns at most limit entries, taken from the head.
C23_HistoryLog ==
    /\ [][Len(db_history') = Len(db_history) + 1
            => (/\ redis'.history[1] = db_history'[Len(db_history')]
                /\ Tail(redis'.history)
                     = SubSeq(redis.history, 1, Len(redis'.history) - 1)
                /\ Len(redis'.history) >= Len(redis.history))]_vars
    /\ [][db_history' = db_history => redis'.history = redis.history]_vars
    /\ [][(last'.op = "toggle"
             /\ (last'.error = "Cooldown active" \/ sw'.pending_switch))
            => (db_history' = db_history /\ redis'.history = redis.history)]_vars
    /\ [](/\ Len(redis.history) <= HistoryCap
          /\ \A i, j \in 1..Len(redis.history) :
                i < j => redis.history[i].timestamp >= redis.history[j].timestamp)
    /\ [](last.op = "get_history"
            => (/\ Len(last.entries) <= last.limit
                /\ last.entries = SubSeq(redis.history, 1, Len(last.entries))))

\* C24: get_metrics reports totalSwitches equal to the number of switches
\* executed so far (one routing_switch_history row each), enabledCount and
\* disabledCount equal to the numbers of those that set enabled to true and
\* to false, so enabledCount + disabledCount = totalSwitches and
\* totalSwitches never decreases.
C24_MetricsCounters ==
    last.op = "get_metrics"
      => (/\ last.metrics.total_switches = Len(db_history)
          /\ last.metrics.enabled_count = CountNew(db_history, "true")
          /\ last.metrics.disabled_count = CountNew(db_history, "false")
          /\ last.metrics.enabled_count + last.metrics.disabled_count
               = last.metrics.total_switches)

C27_ShouldFailover ==
    [][\A p \in Providers :
         should_failover(p)
         => LET since == IF state_change_times[p] = None THEN 0
                         ELSE now - state_change_times[p][1]
                fresh(w) == Cardinality({i \in 1..Len(failure_history[p]) :
                                           now - failure_history[p][i] < w})
                unhealthy == ~health_status[p].is_healthy
            IN /\ (\/ (cb_states[p] = "open" /\ since < timeout_seconds)
                   \/ unhealthy
                   \/ fresh(detection_window) >= 3)
                  => cb_last'.should_failover
               /\ cb_last'.should_failover
                  => (\/ (cb_states[p] = "open" /\ since <= timeout_seconds)
                      \/ unhealthy
                      \/ fresh(detection_window) >= 3)
               /\ ~cb_last'.should_failover
                  => cb_last'.reason = "Provider healthy"]_vars

\* shouldFailover returned true for a healthy backend with a closed circuit
\* because of three failures recorded less than 3 seconds before
C27_Witness ==
    /\ cb_last.op = "should_failover"
    /\ cb_last.should_failover
    /\ cb_last.reason = "Rapid failures detected"
    /\ cb_states[cb_last.provider_id] = "closed"
    /\ health_status[cb_last.provider_id].is_healthy
    /\ Len(failure_history[cb_last.provider_id]) >= 3

\* C28: selectAlternativeProvider(failed, candidates) never returns the
\* failed backend; it returns none only when no candidate other than the
\* failed one exists; when some alternate is healthy and permitted by its
\* circuit it returns such an alternate with the fewest recent failures
\* (first in list order on ties); when no alternate is healthy and permitted
\* it returns the first alternate in list order.  (fail_run[p] is the number
\* of failures recorded for p since its last recorded success; under
\* SpecAlternative every one of them is less than 60 seconds old and no
\* permitted circuit has changed state.)
C28_SelectAlternative ==
    [][\A current \in AllProviders, available \in AvailableLists :
         select_alternative_provider(current, available)
         => LET pos(q) == CHOOSE i \in 1..Len(available) :
                             available[i] = q /\ \A j \in 1..(i - 1) : available[j] # q
                alts == {available[i] : i \in 1..Len(available)} \ {current}
                permitted(q) ==
                    \/ cb_states[q] = "closed"
                    \/ (cb_states[q] = "open"
                          /\ now - state_change_times[q][1] > timeout_seconds)
                    \/ (cb_states[q] = "half_open"
                          /\ health_status[q].consecutive_failures < half_open_max_calls)
                good == {q \in alts : health_status[q].is_healthy /\ permitted(q)}
                selected == cb_last'.selected
            IN /\ selected # Some(current)
               /\ selected = None <=> alts = {}
               /\ good # {}
                    => (/\ selected # None
                        /\ selected[1] \in good
                        /\ \A q \in good :
                              \/ fail_run[selected[1]] < fail_run[q]
                              \/ (fail_run[selected[1]] = fail_run[q]
                                    /\ pos(selected[1]) <= pos(q)))
               /\ (good = {} /\ alts # {})
                    => (/\ selected # None
                        /\ selected[1] \in alts
                        /\ \A q \in alts : pos(selected[1]) <= pos(q))]_vars

\* C29: with exclude_unhealthy set and a non-empty candidate list,
\* select_provider returns one of the candidates and no error, and does not
\* return a candidate the circuit breaker blocks while the breaker lets
\* requests through to at least one other candidate.
C29_ExcludesBlockedCandidates ==
    (/\ lb_last.op = "select_provider"
     /\ lb_last.exclude_unhealthy
     /\ Len(lb_last.provider_ids) > 0)
    => LET ids == {lb_last.provider_ids[i] : i \in 1..Len(lb_last.provider_ids)}
       IN /\ lb_last.error = ""
          /\ lb_last.selected # None
          /\ lb_last.selected[1] \in ids
          /\ (\E c \in ids : AllowResult(c)) => AllowResult(lb_last.selected[1])

\* the compared count of every backend
ComparedCounts == [p \in AllProviders |-> Compared(p)]

\* a least-connections selection step and what it selected
LeastConnectionsStep ==
    /\ lb_last'.op = "select_provider"
    /\ lb_last'.selected # None
    /\ in_flight' # in_flight

\* C30 (selection): a least_connections selection returns a candidate whose
\* current_connections is the minimum over the candidates, and raises the
\* count of that backend, as the next selection compares it, by exactly 1.
C30_SelectionStep ==
    LeastConnectionsStep =>
        LET sel == lb_last'.selected[1]
            ids == {lb_last'.provider_ids[i] : i \in 1..Len(lb_last'.provider_ids)}
            usable == {c \in ids : GetProviderMetrics(c, now, FALSE).is_healthy}
            among == IF usable = {} THEN ids ELSE usable
        IN /\ sel \in among
           /\ \A c \in among : Compared(sel) <= Compared(c)
           /\ ComparedCounts'[sel] = ComparedCounts[sel] + 1

\* C30 (completion): release_connection lowers the count of the backend, as
\* the next selection compares it, by exactly 1.
C30_ReleaseStep ==
    \A p \in AllProviders :
        (lb_last' = [op |-> "release_connection", error |-> "", selected |-> Some(p)]
         /\ in_flight'[p] = in_flight[p] - 1)
        => ComparedCounts'[p] = ComparedCounts[p] - 1

\* C30 (balance): for every backend the count the next selection compares is
\* the number of selections of it minus the number of its completions, and is
\* never negative.
C30_CountIsInFlight ==
    \A p \in AllProviders : Compared(p) = in_flight[p] /\ Compared(p) >= 0

\* C30: the three parts together, over every behaviour of selections,
\* completions, metric updates and clock readings.
C30_LeastConnectionsCount ==
    /\ [][C30_SelectionStep]_vars
    /\ [][C30_ReleaseStep]_vars
    /\ []C30_CountIsInFlight

\* C31: while the circuit of a backend stays half_open, should_allow_request
\* lets through at most half_open_max_calls requests.
C31_HalfOpenProbeLimit ==
    \A p \in Providers :
        cb_states[p] = "half_open" => probe_run[p] <= half_open_max_calls

\* a pass of the probe loop that ended in asyncio.TimeoutError or another
\* exception
ProbeFaults == {"timeout", "raises"}

\* C32 (one probe): a probe of a backend that times out or raises is recorded
\* as unhealthy for that backend with its error message, counts as one more
\* consecutive failure, leaves the entries of the other backends alone, and
\* does not end the task: the rest of the round is still to be probed.
C32_FaultRecorded ==
    \A outcome \in ProbeFaults :
        (/\ monitor.pc = "probe"
         /\ monitor'.visited = Append(monitor.visited,
                [provider_id |-> Head(monitor.queue), outcome |-> outcome]))
        => LET p == Head(monitor.queue)
           IN /\ ~health_status'[p].is_healthy
              /\ health_status'[p].error_message =
                    Some(IF outcome = "timeout" THEN "Health check timeout" ELSE "str(e)")
              /\ health_status'[p].consecutive_failures =
                    health_status[p].consecutive_failures + 1
              /\ \A q \in AllProviders \ {p} : health_status'[q] = health_status[q]
              /\ monitor'.running = monitor.running
              /\ monitor'.queue = Tail(monitor.queue)
              /\ monitor'.pc = IF Tail(monitor.queue) = <<>> THEN "sleep" ELSE "probe"

\* C32 (round and loop): when a round ends every active backend has been
\* visited, in order; from the sleep between rounds the task goes to the next
\* round or ends, and it has ended only when stop was called.
C32_RoundsGoOn ==
    /\ monitor.pc = "sleep" =>
          [i \in 1..Len(monitor.visited) |-> monitor.visited[i].provider_id]
             = ActiveBackends
    /\ monitor.pc = "done" => ~monitor.running
    /\ monitor.running => monitor.pc \in {"loop", "probe", "sleep"}

\* C32: both parts, over every behaviour of the health monitor.
C32_MonitorSurvivesProbeFaults ==
    /\ [][C32_FaultRecorded]_vars
    /\ []C32_RoundsGoOn

\* a second round was completed after the probe of backend 1 timed out and
\* the probe of backend 2 raised in a round
C32_Witness ==
    /\ monitor.running
    /\ monitor.pc = "sleep"
    /\ monitor.rounds = 2
    /\ monitor.visited = <<[provider_id |-> 1, outcome |-> "timeout"],
                           [provider_id |-> 2, outcome |-> "raises"]>>
    /\ health_status[1].error_message = Some("Health check timeout")
    /\ health_status[2].error_message = Some("str(e)")
    /\ health_status[1].consecutive_failures = 2

\* the selections of one kind that have returned
Returned(kind) == {i \in TaskIds : tasks[i].pc = "done" /\ tasks[i].kind = kind}

\* C33: however the weighted selections interleave at their awaits, the
\* counter of the routing agent (and of the load balancer) stands at the
\* number N of selections that have returned, these used the N distinct
\* counter values 0..N-1, and each returned what a sequential selection
\* returns for the counter value it used: no update of the counter is lost.
C33_NoLostCounterUpdate ==
    /\ LET R == Returned("route")
           c == CandidateModels(ModelList)
       IN /\ round_robin_index = Cardinality(R)
          /\ {tasks[i].used : i \in R} = 0..(Cardinality(R) - 1)
          /\ \A i \in R : tasks[i].pick = PickOf(c[WeightedPick(c, tasks[i].used)])
          /\ Len(picks) = Cardinality(R)
    /\ LET B == Returned("balance")
           ms == [k \in 1..Len(BalanceCandidates) |->
                    GetProviderMetrics(BalanceCandidates[k], now, FALSE)]
       IN /\ lb_round_robin_index = Cardinality(B)
          /\ {tasks[i].used : i \in B} = 0..(Cardinality(B) - 1)
          /\ \A i \in B :
                tasks[i].pick = StrategyPick(tasks[i].strategy, ms, tasks[i].used,
                                             None).provider_id

\* two routing selections were in progress together (the first called was
\* the last to return) and a balancer selection ran next to them
C33_Witness ==
    /\ \E i, j \in TaskIds :
          /\ i # j
          /\ tasks[i].pc = "done" /\ tasks[i].kind = "route"
          /\ tasks[j].pc = "done" /\ tasks[j].kind = "route"
          /\ tasks[i].seen = 0 /\ tasks[j].seen = 0
          /\ tasks[i].used = 1 /\ tasks[j].used = 0
          /\ tasks[i].pick # tasks[j].pick
    /\ \E k \in TaskIds : tasks[k].pc = "done" /\ tasks[k].kind = "balance"

\* C34: when the update_provider_metrics calls made for a backend have all
\* returned, however they interleaved, the stored metrics show one request
\* per call, one success per successful call, and successful + failed = total.
C34_NoLostMetricUpdate ==
    LET U == Returned("update")
        ok == {i \in U : tasks[i].success}
        stored == metrics_redis[UpdatedBackend]
    IN (U # {} /\ \A i \in TaskIds : tasks[i].pc \in {"idle", "done"})
       => /\ stored # None
          /\ stored[1].total_requests = Cardinality(U)
          /\ stored[1].successful_requests = Cardinality(ok)
          /\ stored[1].successful_requests + stored[1].failed_requests
                = stored[1].total_requests

\* C35: the can_toggle flag get_status returns is true exactly when a toggle
\* without force made at the same clock reading would pass the cooldown check
\* of toggle, the reading now = cooldown_until included.
C35_CanToggleMatchesToggle ==
    [][get_status
         => (last'.info.can_toggle <=> ~CooldownActive(sw'.cooldown_until, now))]_vars

\* the status reads that applied the scheduled switch
Appliers == {i \in TaskIds : tasks[i].pc # "idle" /\ tasks[i].kind = "read"
                              /\ tasks[i].applied}

\* C36 (state): however the status reads interleave at their awaits, at most
\* one of them applies the scheduled switch, at most one history entry is
\* written for it (exactly one, in the table and in the log, once the reads
\* have returned), and pending is clear from the moment it is applied.
C36_AppliedOnce ==
    /\ Cardinality(Appliers) <= 1
    /\ Len(db_history) <= 1 /\ Len(redis.history) <= 1
    /\ Appliers # {} => ~sw.pending_switch /\ sw.enabled = lastToggle.value
    /\ (Appliers # {} /\ \A i \in TaskIds : tasks[i].pc \in {"idle", "done"})
       => /\ Len(db_history) = 1 /\ Len(redis.history) = 1
          /\ db_history[1].reason = "Scheduled switch"
          /\ redis.cooldown # None
          /\ redis.cooldown[1].value = sw.cooldown_until[1]

\* C36 (cooldown): the cooldown is started once: once set, cooldown_until is
\* not moved by a later status read.
C36_CooldownStartedOnce ==
    sw.cooldown_until # None => sw'.cooldown_until = sw.cooldown_until

\* C36: both parts, over every interleaving of the status reads.
C36_ScheduledSwitchAppliedOnce ==
    /\ []C36_AppliedOnce
    /\ [][C36_CooldownStartedOnce]_vars

\* three status reads reached the due switch together: one applied it and was
\* still writing to the store when the other two returned, at a later reading
C36_Witness ==
    /\ Cardinality(Appliers) = 1
    /\ \A i \in TaskIds : tasks[i].pc = "done"
    /\ \E i \in Appliers : tasks[i].op = "is_enabled"
    /\ last.op = "is_enabled"
    /\ now = 12
    /\ sw.cooldown_until = Some(310)
    /\ Len(redis.history) = 1
    /\ redis.history[1].timestamp = 12

\* C37: every RouteDecision returned by route names a provider that execute
\* can resolve: provider_id is set, and for a rule_based decision (use_model
\* or use_provider) the lookup execute starts with finds a provider row, so
\* that execute does not answer 'Provider not found'.
C37_DecisionResolvable ==
    (route_last.error = "" /\ route_last.method # "")
    => /\ route_last.provider_id # None
       /\ route_last.method = "rule_based"
          => FindProvider(route_last.provider_id) # <<>>

\* C38: when a store write fails while a switch is being executed (immediate
\* toggle or resolution of a pending switch) the operation is all-or-nothing:
\* the in-memory enabled, pending and cooldown values are those of before the
\* failed operation.
C38_FailedSwitchLeavesMemory ==
    [][\A k \in FaultyWrites :
         ((\E value \in BOOLEAN : toggle_fault(value, k)) \/ status_fault(k))
         => /\ sw'.enabled = sw.enabled
            /\ sw'.pending_switch = sw.pending_switch
            /\ sw'.cooldown_until = sw.cooldown_until]_vars

\* C39: with two gateway processes on one store, once a switch has been
\* executed a status read in the second process reports the enabled value and
\* the cooldown that a status read in the first process reports at the same
\* instant.
C39_PeerReadsAgree ==
    [][(peer_get_status /\ db_history' # <<>>)
       => LET mine == SwitchInfo(ProcessPendingMem(sw, now), now)
          IN /\ last'.info.enabled = mine.enabled
             /\ last'.info.cooldown_until = mine.cooldown_until]_vars

\* the backends select_alternative_provider ranks by failure count
RankedBackends(current, available) ==
    LET healthy == HealthyAlternatives(current, available)
    IN {healthy[i] : i \in 1..Len(healthy)}

\* C40 (ranking): the count select_alternative_provider ranks a backend by is
\* the number of failures recorded for it in the preceding 60 seconds since
\* its last recorded success (fail_run: under SpecAlternative every recorded
\* failure is less than 60 seconds old and no ranked circuit changes state).
C40_RankedByRecordedFailures ==
    \A current \in AllProviders, available \in AvailableLists :
       select_alternative_provider(current, available)
       => \A q \in RankedBackends(current, available) :
             Len(RecentFailures(failure_history[q], now, selection_window)) = fail_run[q]

\* C40 (detection window): should_failover, which evaluates the 3-second
\* window, removes no failure that is still inside the 60-second window.
C40_DetectionKeepsWindow ==
    \A p \in AllProviders :
       should_failover(p)
       => RecentFailures(failure_history'[p], now, selection_window)
            = RecentFailures(failure_history[p], now, selection_window)

\* C40: both parts, whatever calls were interleaved before.
C40_FailureCountForRanking ==
    /\ [][C40_RankedByRecordedFailures]_vars
    /\ [][C40_DetectionKeepsWindow]_vars

====
